---- MODULE Spec2Model ----
(***************************************************************************)
(* Verification model of the sigma-chess repository.                       *)
(*                                                                         *)
(* Part A: the PythonChess rules engine (chess_logic.py, constants.py):    *)
(* the Board object, make_move / unmake_move, move generation and the      *)
(* terminal-state queries, and Board.copy.                                 *)
(*                                                                         *)
(* Part B: the PythonChess user interface (chess_gui.py): the handlers of   *)
(* ChessGUI run by the Tk event loop, the callbacks scheduled with         *)
(* root.after and the background thread of the engine's calculation.       *)
(*                                                                         *)
(* Part C: the PythonChess strategies (ai_strategies): ai_random,          *)
(* ai_minimax and ai_alphabeta.                                            *)
(***************************************************************************)
EXTENDS Integers, Sequences, FiniteSets, TLC

VARIABLES
    board,              \* Board.board: 64 squares, NoPiece or a Piece
    turn,               \* Board.turn
    castling_rights,    \* Board.castling_rights (bit mask)
    en_passant_target,  \* Board.en_passant_target (None or 0..63)
    halfmove_clock,     \* Board.halfmove_clock
    fullmove_number,    \* Board.fullmove_number
    history,            \* Board.history (undo stack)
    position_history,   \* Board.position_history (fingerprint -> count)
    fen,                \* the name of the FEN the Board was constructed from
    legal_moves,        \* the caller's list: what get_legal_moves() last returned
    game_state,         \* the caller's view: what get_game_state() last returned
    new_board,          \* the Board object returned by Board.copy()
    gui,                \* the fields of the ChessGUI object
    after_calls,        \* Tk: the callbacks scheduled with root.after, not yet run
    threads,            \* the background threads started and not yet ended
    shown,              \* the "Game Over" message boxes shown so far
    best_move,          \* what a strategy's search last returned
    chess_board,        \* chess_game && ui: the ChessBoard object
    game,               \* chess_game && ui: the locals of main()
    session,            \* code/main.py: the locals of main()
    trainer,            \* train_pytorch_model.py: the locals of the training loop
    called              \* a function called on its own: its argument and its outcome

\* The variables of the Board object and of its caller.
board_vars == <<board, turn, castling_rights, en_passant_target, halfmove_clock,
                fullmove_number, history, position_history, fen, legal_moves, game_state>>

\* The variables of the user interface, of Board.copy and of the strategies.
\* The variables of the other programs of the repository.
more_vars == <<chess_board, game, session, trainer, called>>

other_vars == <<new_board, gui, after_calls, threads, shown, best_move, more_vars>>

vars == <<board_vars, other_vars>>

(***************************************************************************)
(* constants.py                                                            *)
(***************************************************************************)
WHITE == 0
BLACK == 1

EMPTY == 0
PAWN == 1
KNIGHT == 2
BISHOP == 3
ROOK == 4
QUEEN == 5
KING == 6

NO_CASTLING == 0
WHITE_KING_SIDE == 1
WHITE_QUEEN_SIDE == 2
BLACK_KING_SIDE == 4
BLACK_QUEEN_SIDE == 8

ONGOING == 0
CHECKMATE == 1
STALEMATE == 2
INSUFFICIENT_MATERIAL == 3
FIFTY_MOVE_RULE == 4
THREEFOLD_REPETITION == 5
DRAW_STATES == {STALEMATE, INSUFFICIENT_MATERIAL, FIFTY_MOVE_RULE, THREEFOLD_REPETITION}

NORMAL_MOVE == 0
CAPTURE == 1
EN_PASSANT == 2
CASTLING == 3

\* Python's None where a square index, a colour or a promotion type is optional.
None == -1

\* There is no user interface, no copy of the Board and no strategy.
NoCall == [call |-> "None"]

\* The other programs of the repository are not running.
NoMore ==
    /\ chess_board = None
    /\ game = None
    /\ session = None
    /\ trainer = None
    /\ called = NoCall

NoOthers ==
    /\ NoMore
    /\ new_board = None
    /\ gui = None
    /\ after_calls = <<>>
    /\ threads = <<>>
    /\ shown = <<>>
    /\ best_move = NoCall

FILES == <<"a", "b", "c", "d", "e", "f", "g", "h">>
RANKS == <<"1", "2", "3", "4", "5", "6", "7", "8">>

KNIGHT_MOVES == << <<2, 1>>, <<2, -1>>, <<-2, 1>>, <<-2, -1>>,
                   <<1, 2>>, <<1, -2>>, <<-1, 2>>, <<-1, -2>> >>
BISHOP_DIRECTIONS == << <<1, 1>>, <<1, -1>>, <<-1, 1>>, <<-1, -1>> >>
ROOK_DIRECTIONS == << <<1, 0>>, <<-1, 0>>, <<0, 1>>, <<0, -1>> >>
QUEEN_DIRECTIONS == BISHOP_DIRECTIONS \o ROOK_DIRECTIONS

\* The position of x in the list s (Python's list.index), 0-based.
ListIndex(s, x) == (CHOOSE i \in 1..Len(s) : s[i] = x) - 1

InList(s, x) == \E i \in 1..Len(s) : s[i] = x

\* The element of a one-element set: The({e(x) : x \in {v}}) is e of the
\* value v, computed once whatever the number of uses of x in e.
The(S) == CHOOSE x \in S : TRUE

UPPER_LETTERS == <<"A", "B", "C", "D", "E", "F", "G", "H", "I", "J", "K", "L", "M",
                    "N", "O", "P", "Q", "R", "S", "T", "U", "V", "W", "X", "Y", "Z">>
LOWER_LETTERS == <<"a", "b", "c", "d", "e", "f", "g", "h", "i", "j", "k", "l", "m",
                    "n", "o", "p", "q", "r", "s", "t", "u", "v", "w", "x", "y", "z">>

\* str.lower() of one character that is a letter A-Z or has no lower case.
lower(char) ==
    IF InList(UPPER_LETTERS, char) THEN LOWER_LETTERS[ListIndex(UPPER_LETTERS, char) + 1]
    ELSE char

\* A square name is the sequence of its characters, <<"e", "4">>.
\* square_to_index raises ValueError on a malformed name: SquareNameOk is
\* the condition under which it returns.
SquareNameOk(sq_name) ==
    /\ Len(sq_name) = 2
    /\ InList(FILES, lower(sq_name[1]))
    /\ InList(RANKS, sq_name[2])

square_to_index(sq_name) ==
    ListIndex(RANKS, sq_name[2]) * 8 + ListIndex(FILES, lower(sq_name[1]))

\* A faulty variant of index_to_square: file and rank are taken the wrong
\* way round.
index_to_square_by_rank(index) ==
    <<FILES[(index \div 8) + 1], RANKS[(index % 8) + 1]>>

\* index_to_square raises ValueError.
IndexRaises(index) == ~(0 <= index /\ index <= 63)

index_to_square(index) ==
    <<FILES[(index % 8) + 1], RANKS[(index \div 8) + 1]>>

get_rank(index) == index \div 8

get_file(index) == index % 8

(***************************************************************************)
(* chess_logic.py: Piece and Move                                          *)
(***************************************************************************)
Piece(piece_type, color) == [type |-> piece_type, color |-> color]

\* An empty square (None in the board list).
NoPiece == [type |-> EMPTY, color |-> None]

Move(from_sq, to_sq, promotion, flags) ==
    [from_sq |-> from_sq, to_sq |-> to_sq, promotion |-> promotion, flags |-> flags]

\* Move.__eq__: flags are not part of a move's identity.
MoveEq(m1, m2) ==
    /\ m1.from_sq = m2.from_sq
    /\ m1.to_sq = m2.to_sq
    /\ m1.promotion = m2.promotion

OnBoard(rank, file) == 0 <= rank /\ rank < 8 /\ 0 <= file /\ file < 8

\* castling_rights & bit
HasRight(rights, bit) == (rights \div bit) % 2 = 1

\* castling_rights &= ~bit
ClearRight(rights, bit) == IF HasRight(rights, bit) THEN rights - bit ELSE rights

Opponent(color) == IF color = WHITE THEN BLACK ELSE WHITE

(***************************************************************************)
(* chess_logic.py: Board construction                                      *)
(*                                                                         *)
(* A FEN string is modelled after fen.split(' '): the sequence of its      *)
(* fields, the placement and castling fields as sequences of characters,   *)
(* the en-passant field as <<"-">> or a square name, the two counters as   *)
(* the integers int() returns.                                             *)
(***************************************************************************)
DIGITS == <<"0", "1", "2", "3", "4", "5", "6", "7", "8", "9">>
LOWER_PIECE_CHARS == <<"p", "n", "b", "r", "q", "k">>
UPPER_PIECE_CHARS == <<"P", "N", "B", "R", "Q", "K">>

\* The Piece a placement letter stands for (PAWN..KING are 1..6 in the order
\* of the letter lists).
FenPiece(char) ==
    IF InList(UPPER_PIECE_CHARS, char)
    THEN Piece(ListIndex(UPPER_PIECE_CHARS, char) + 1, WHITE)
    ELSE Piece(ListIndex(LOWER_PIECE_CHARS, char) + 1, BLACK)

\* self.board[index]: a negative index counts from the end of the list.
ListPosition(index) == IF index < 0 THEN index + 64 ELSE index

\* The loop over the placement field: rank 8 first, '/' starts the next rank,
\* a digit skips that many files, a letter puts a piece on rank * 8 + file.
RECURSIVE FenPlacement(_, _, _, _, _)
FenPlacement(fen_board, i, rank, file, squares) ==
    IF i > Len(fen_board) THEN squares
    ELSE LET char == fen_board[i] IN
         IF char = "/" THEN FenPlacement(fen_board, i + 1, rank - 1, 0, squares)
         ELSE IF InList(DIGITS, char)
         THEN FenPlacement(fen_board, i + 1, rank, file + ListIndex(DIGITS, char), squares)
         ELSE FenPlacement(fen_board, i + 1, rank, file + 1,
                           [squares EXCEPT ![ListPosition(rank * 8 + file)] = FenPiece(char)])

\* The castling field; the black letters are also looked for in the field
\* that follows it (the en-passant field), as the code does.
FenCastling(field, next_field) ==
    (IF InList(field, "K") THEN WHITE_KING_SIDE ELSE NO_CASTLING)
    + (IF InList(field, "Q") THEN WHITE_QUEEN_SIDE ELSE NO_CASTLING)
    + (IF InList(field, "k") \/ InList(next_field, "k") THEN BLACK_KING_SIDE ELSE NO_CASTLING)
    + (IF InList(field, "q") \/ InList(next_field, "q") THEN BLACK_QUEEN_SIDE ELSE NO_CASTLING)

\* Board._get_position_hash of a board record.
PositionHash(b) == <<b.board, b.turn, b.castling_rights, b.en_passant_target>>

\* Board._update_position_history: count the current position once more.
UpdatePositionHistory(b) ==
    LET pos_hash == PositionHash(b) IN
    [b EXCEPT !.position_history =
        IF pos_hash \in DOMAIN b.position_history
        THEN [b.position_history EXCEPT ![pos_hash] = @ + 1]
        ELSE b.position_history @@ (pos_hash :> 1)]

\* A faulty variant of RemoveFromPositionHistory: the entry is kept when its
\* count reaches 0.
RemoveKeepingTheEntry(b) ==
    LET pos_hash == PositionHash(b) IN
    [b EXCEPT !.position_history =
        IF pos_hash \in DOMAIN b.position_history
        THEN [b.position_history EXCEPT ![pos_hash] = @ - 1]
        ELSE b.position_history]

\* Board._remove_from_position_history: count the current position once less
\* and drop the entry when its count reaches 0.
RemoveFromPositionHistory(b) ==
    LET pos_hash == PositionHash(b) IN
    [b EXCEPT !.position_history =
        IF pos_hash \in DOMAIN b.position_history
        THEN IF b.position_history[pos_hash] - 1 <= 0
             THEN [h \in (DOMAIN b.position_history) \ {pos_hash} |-> b.position_history[h]]
             ELSE [b.position_history EXCEPT ![pos_hash] = @ - 1]
        ELSE b.position_history]

\* Board.__init__ with _setup_from_fen on a well-formed FEN.
NewBoard(parts) ==
    The({UpdatePositionHistory(set_up) : set_up \in {
        [board |-> FenPlacement(parts[1], 1, 7, 0, [sq \in 0..63 |-> NoPiece]),
         turn |-> IF parts[2] = "w" THEN WHITE ELSE BLACK,
         castling_rights |-> FenCastling(parts[3], parts[4]),
         en_passant_target |-> IF parts[4] # <<"-">> THEN square_to_index(parts[4]) ELSE None,
         halfmove_clock |-> parts[5],
         fullmove_number |-> parts[6],
         history |-> <<>>,
         position_history |-> <<>>]}})

(***************************************************************************)
(* chess_logic.py: make_move / unmake_move                                 *)
(*                                                                         *)
(* A board record b holds the fields of one Board object; make_move and    *)
(* unmake_move return the record after the call.                           *)
(***************************************************************************)
\* A faulty variant of MakeMoveRaises: the colour of the piece is not
\* looked at.
MakeMoveRaisesOnEmpty(b, move) ==
    b.board[move.from_sq] = NoPiece

\* make_move raises ValueError before it changes anything.
MakeMoveRaises(b, move) ==
    \/ b.board[move.from_sq] = NoPiece
    \/ b.board[move.from_sq].color # b.turn

\* A faulty variant of NewEnPassantTarget: the target is computed as for a
\* white pawn whatever the colour of the pawn.
NewEnPassantTargetAsWhite(piece, move) ==
    IF piece.type = PAWN /\ (move.to_sq - move.from_sq = 16 \/ move.from_sq - move.to_sq = 16)
    THEN move.from_sq + 8
    ELSE None

\* The en-passant target make_move sets: the skipped square after a pawn's
\* double step, None after any other move.
NewEnPassantTarget(piece, move) ==
    IF piece.type = PAWN /\ (move.to_sq - move.from_sq = 16 \/ move.from_sq - move.to_sq = 16)
    THEN move.from_sq + (IF piece.color = WHITE THEN 8 ELSE -8)
    ELSE None

\* The rook's <<home corner, castled square>> for the king's destination
\* to_sq of a move flagged CASTLING; <<>> for any other destination.
CastlingRook(to_sq) ==
    IF to_sq = square_to_index(<<"g", "1">>)
    THEN <<square_to_index(<<"h", "1">>), square_to_index(<<"f", "1">>)>>
    ELSE IF to_sq = square_to_index(<<"c", "1">>)
    THEN <<square_to_index(<<"a", "1">>), square_to_index(<<"d", "1">>)>>
    ELSE IF to_sq = square_to_index(<<"g", "8">>)
    THEN <<square_to_index(<<"h", "8">>), square_to_index(<<"f", "8">>)>>
    ELSE IF to_sq = square_to_index(<<"c", "8">>)
    THEN <<square_to_index(<<"a", "8">>), square_to_index(<<"d", "8">>)>>
    ELSE <<>>

\* make_move, "Castling: Move the rook".
MoveCastlingRook(squares, move) ==
    LET rk == CastlingRook(move.to_sq) IN
    IF move.flags = CASTLING /\ rk # <<>>
    THEN [squares EXCEPT ![rk[1]] = NoPiece, ![rk[2]] = squares[rk[1]]]
    ELSE squares

\* unmake_move, "Castling: Move rook back".
UnmoveCastlingRook(squares, last_move) ==
    LET rk == CastlingRook(last_move.to_sq) IN
    IF last_move.flags = CASTLING /\ rk # <<>>
    THEN [squares EXCEPT ![rk[2]] = NoPiece, ![rk[1]] = squares[rk[2]]]
    ELSE squares

\* The rooks' home corners, square_to_index('h1') and so on.
CORNERS ==
    [h1 |-> square_to_index(<<"h", "1">>), a1 |-> square_to_index(<<"a", "1">>),
     h8 |-> square_to_index(<<"h", "8">>), a8 |-> square_to_index(<<"a", "8">>)]

\* if condition: castling_rights &= ~bit
ClearRightIf(rights, bit, condition) == IF condition THEN ClearRight(rights, bit) ELSE rights

\* A faulty variant of CastlingRightsAfter: only the moves of kings and the
\* moves away from a corner clear rights, a capture on a corner does not.
CastlingRightsAfterLeaving(rights, piece, move, captured_piece) ==
    LET r1 == IF piece.type = KING
              THEN IF piece.color = WHITE
                   THEN ClearRight(ClearRight(rights, WHITE_KING_SIDE), WHITE_QUEEN_SIDE)
                   ELSE ClearRight(ClearRight(rights, BLACK_KING_SIDE), BLACK_QUEEN_SIDE)
              ELSE rights
        r2 == ClearRightIf(r1, WHITE_KING_SIDE, move.from_sq = CORNERS.h1)
        r3 == ClearRightIf(r2, WHITE_QUEEN_SIDE, move.from_sq = CORNERS.a1)
        r4 == ClearRightIf(r3, BLACK_KING_SIDE, move.from_sq = CORNERS.h8)
    IN  ClearRightIf(r4, BLACK_QUEEN_SIDE, move.from_sq = CORNERS.a8)

\* A faulty variant of CastlingRightsAfter: a king's move clears no right,
\* only the moves from and to the corners do.
CastlingRightsAfterCorners(rights, piece, move, captured_piece) ==
    LET r2 == ClearRightIf(rights, WHITE_KING_SIDE,
                           move.from_sq = CORNERS.h1 \/ move.to_sq = CORNERS.h1)
        r3 == ClearRightIf(r2, WHITE_QUEEN_SIDE,
                           move.from_sq = CORNERS.a1 \/ move.to_sq = CORNERS.a1)
        r4 == ClearRightIf(r3, BLACK_KING_SIDE,
                           move.from_sq = CORNERS.h8 \/ move.to_sq = CORNERS.h8)
    IN  ClearRightIf(r4, BLACK_QUEEN_SIDE,
                     move.from_sq = CORNERS.a8 \/ move.to_sq = CORNERS.a8)

\* make_move, "Update Castling Rights".
CastlingRightsAfter(rights, piece, move, captured_piece) ==
    LET h1 == CORNERS.h1
        a1 == CORNERS.a1
        h8 == CORNERS.h8
        a8 == CORNERS.a8
        r1 == IF piece.type = KING
              THEN IF piece.color = WHITE
                   THEN ClearRight(ClearRight(rights, WHITE_KING_SIDE), WHITE_QUEEN_SIDE)
                   ELSE ClearRight(ClearRight(rights, BLACK_KING_SIDE), BLACK_QUEEN_SIDE)
              ELSE rights
        r2 == ClearRightIf(r1, WHITE_KING_SIDE, move.from_sq = h1 \/ move.to_sq = h1)
        r3 == ClearRightIf(r2, WHITE_QUEEN_SIDE, move.from_sq = a1 \/ move.to_sq = a1)
        r4 == ClearRightIf(r3, BLACK_KING_SIDE, move.from_sq = h8 \/ move.to_sq = h8)
        r5 == ClearRightIf(r4, BLACK_QUEEN_SIDE, move.from_sq = a8 \/ move.to_sq = a8)
        rook_taken == captured_piece # NoPiece /\ captured_piece.type = ROOK
        r6 == ClearRightIf(r5, WHITE_KING_SIDE, rook_taken /\ move.to_sq = h1)
        r7 == ClearRightIf(r6, WHITE_QUEEN_SIDE, rook_taken /\ move.to_sq = a1)
        r8 == ClearRightIf(r7, BLACK_KING_SIDE, rook_taken /\ move.to_sq = h8)
    IN  ClearRightIf(r8, BLACK_QUEEN_SIDE, rook_taken /\ move.to_sq = a8)

\* A faulty variant of NewHalfmoveClock: a capture by a piece does not reset
\* the clock.
NewHalfmoveClockPawnOnly(clock, is_pawn_move, is_capture) ==
    IF is_pawn_move THEN 0 ELSE clock + 1

\* make_move, the half-move clock: 0 after a pawn move or a capture.
NewHalfmoveClock(clock, is_pawn_move, is_capture) ==
    IF is_pawn_move \/ is_capture THEN 0 ELSE clock + 1

make_move(b, move) ==
    IF MakeMoveRaises(b, move) THEN b
    ELSE
    LET piece == b.board[move.from_sq]
        target == b.board[move.to_sq]
        moved == [b.board EXCEPT ![move.to_sq] = piece, ![move.from_sq] = NoPiece]
        captured_pawn_sq == move.to_sq + (IF piece.color = WHITE THEN -8 ELSE 8)
        captured_piece == IF move.flags = EN_PASSANT THEN moved[captured_pawn_sq] ELSE target
        is_capture == target # NoPiece \/ move.flags = EN_PASSANT
        after_ep == IF move.flags = EN_PASSANT
                    THEN [moved EXCEPT ![captured_pawn_sq] = NoPiece]
                    ELSE moved
        after_castle == MoveCastlingRook(after_ep, move)
        after_promo == IF move.promotion # None
                       THEN [after_castle EXCEPT ![move.to_sq] = Piece(move.promotion, piece.color)]
                       ELSE after_castle
        history_entry == [move |-> move,
                          captured_piece |-> captured_piece,
                          old_castling |-> b.castling_rights,
                          old_ep |-> b.en_passant_target,
                          old_halfmove |-> b.halfmove_clock]
    IN  The({UpdatePositionHistory(moved_on) : moved_on \in {
            [board |-> after_promo,
             turn |-> Opponent(b.turn),
             castling_rights |-> CastlingRightsAfter(b.castling_rights, piece, move, captured_piece),
             en_passant_target |-> NewEnPassantTarget(piece, move),
             halfmove_clock |-> NewHalfmoveClock(b.halfmove_clock, piece.type = PAWN, is_capture),
             fullmove_number |-> IF b.turn = BLACK THEN b.fullmove_number + 1
                                                   ELSE b.fullmove_number,
             history |-> Append(b.history, history_entry),
             position_history |-> b.position_history]}})

\* A faulty variant of RestorePieces: the captured piece is always put back
\* on the destination square, also after an en-passant capture.
RestorePiecesOnDestination(squares, last_move, captured_piece) ==
    LET arrived == squares[last_move.to_sq]
        moved_piece == IF last_move.promotion # None THEN Piece(PAWN, arrived.color) ELSE arrived
    IN  [squares EXCEPT ![last_move.from_sq] = moved_piece,
                        ![last_move.to_sq] = captured_piece]

\* unmake_move, "Undo Piece Movement" and "En passant: Put captured pawn
\* back": the squares after the moved piece and the captured piece are put
\* back.
RestorePieces(squares, last_move, captured_piece) ==
    LET arrived == squares[last_move.to_sq]
        moved_piece == IF last_move.promotion # None THEN Piece(PAWN, arrived.color) ELSE arrived
        back == [squares EXCEPT ![last_move.from_sq] = moved_piece,
                                ![last_move.to_sq] = captured_piece]
        captured_pawn_sq == last_move.to_sq + (IF moved_piece.color = WHITE THEN -8 ELSE 8)
    IN  IF last_move.flags = EN_PASSANT
        THEN [back EXCEPT ![last_move.to_sq] = NoPiece, ![captured_pawn_sq] = captured_piece]
        ELSE back

unmake_move(b) ==
    IF b.history = <<>> THEN b
    ELSE
    LET left == RemoveFromPositionHistory(b)
        entry == b.history[Len(b.history)]
        new_turn == Opponent(b.turn)
    IN  [board |-> UnmoveCastlingRook(
                       RestorePieces(b.board, entry.move, entry.captured_piece), entry.move),
         turn |-> new_turn,
         castling_rights |-> entry.old_castling,
         en_passant_target |-> entry.old_ep,
         halfmove_clock |-> entry.old_halfmove,
         fullmove_number |-> IF new_turn = BLACK THEN b.fullmove_number - 1
                                                 ELSE b.fullmove_number,
         history |-> SubSeq(b.history, 1, Len(b.history) - 1),
         position_history |-> left.position_history]

(***************************************************************************)
(* chess_logic.py: attack test and move generation                         *)
(***************************************************************************)
\* is_attacked, one ray of the sliding test: the first piece met from
\* (rank, file) in direction (dr, df) is an attacker of a relevant type.
RECURSIVE RayAttacked(_, _, _, _, _, _, _)
RayAttacked(squares, rank, file, dr, df, i, attacker_color) ==
    LET check_rank == rank + i * dr
        check_file == file + i * df
    IN  IF i >= 8 \/ ~OnBoard(check_rank, check_file) THEN FALSE
        ELSE LET piece == squares[check_rank * 8 + check_file] IN
             IF piece # NoPiece
             THEN /\ piece.color = attacker_color
                  /\ IF dr = 0 \/ df = 0 THEN piece.type \in {ROOK, QUEEN}
                                         ELSE piece.type \in {BISHOP, QUEEN}
             ELSE RayAttacked(squares, rank, file, dr, df, i + 1, attacker_color)

is_attacked(b, square_index, attacker_color) ==
    LET target_rank == get_rank(square_index)
        target_file == get_file(square_index)
        pawn_direction == IF attacker_color = WHITE THEN -1 ELSE 1
        IsPiece(rank, file, piece_type) ==
            /\ OnBoard(rank, file)
            /\ b.board[rank * 8 + file] = Piece(piece_type, attacker_color)
    IN  \/ /\ target_rank + pawn_direction \in 0..7
           /\ \E file_offset \in {-1, 1} :
                  IsPiece(target_rank + pawn_direction, target_file + file_offset, PAWN)
        \/ \E k \in 1..Len(KNIGHT_MOVES) :
               IsPiece(target_rank + KNIGHT_MOVES[k][1], target_file + KNIGHT_MOVES[k][2], KNIGHT)
        \/ \E k \in 1..Len(QUEEN_DIRECTIONS) :
               RayAttacked(b.board, target_rank, target_file,
                           QUEEN_DIRECTIONS[k][1], QUEEN_DIRECTIONS[k][2], 1, attacker_color)
        \/ \E dr \in {-1, 0, 1}, df \in {-1, 0, 1} :
               /\ ~(dr = 0 /\ df = 0)
               /\ IsPiece(target_rank + dr, target_file + df, KING)

\* find_king: the lowest square holding the king of that colour, None if
\* there is none.
find_king(b, color) ==
    IF \E i \in 0..63 : b.board[i].type = KING /\ b.board[i].color = color
    THEN CHOOSE i \in 0..63 :
             /\ b.board[i].type = KING /\ b.board[i].color = color
             /\ \A j \in 0..(i - 1) : ~(b.board[j].type = KING /\ b.board[j].color = color)
    ELSE None

is_in_check(b, color) ==
    \E king_pos \in {find_king(b, color)} :
        IF king_pos = None THEN FALSE ELSE is_attacked(b, king_pos, Opponent(color))

\* The four promotion moves of a pawn reaching the last rank.
PromotionMoves(index, to_index, flags) ==
    <<Move(index, to_index, QUEEN, flags), Move(index, to_index, ROOK, flags),
      Move(index, to_index, BISHOP, flags), Move(index, to_index, KNIGHT, flags)>>

\* get_pseudo_legal_moves, "Pawn Moves", captures towards one side.
PawnCapture(b, index, file_offset) ==
    LET direction == IF b.turn = WHITE THEN 1 ELSE -1
        to_file == get_file(index) + file_offset
        to_rank == get_rank(index) + direction
        to_index == to_rank * 8 + to_file
    IN  IF ~OnBoard(to_rank, to_file) THEN <<>>
        ELSE IF b.board[to_index] # NoPiece /\ b.board[to_index].color # b.turn
        THEN IF to_rank = 7 \/ to_rank = 0
             THEN PromotionMoves(index, to_index, CAPTURE)
             ELSE <<Move(index, to_index, None, CAPTURE)>>
        ELSE IF to_index = b.en_passant_target
        THEN <<Move(index, to_index, None, EN_PASSANT)>>
        ELSE <<>>

\* A faulty variant of PawnStartRank: the second rank for both colours.
PawnStartRankOfWhite(color) == 1

\* The rank a pawn of that colour makes its double step from.
PawnStartRank(color) == IF color = WHITE THEN 1 ELSE 6

\* get_pseudo_legal_moves, "Pawn Moves".
PawnMoves(b, index) ==
    LET direction == IF b.turn = WHITE THEN 1 ELSE -1
        start_rank == PawnStartRank(b.turn)
        to_index == index + 8 * direction
        to_index_double == index + 16 * direction
        pushes ==
            IF 0 <= to_index /\ to_index <= 63 /\ b.board[to_index] = NoPiece
            THEN (IF get_rank(to_index) = 7 \/ get_rank(to_index) = 0
                  THEN PromotionMoves(index, to_index, NORMAL_MOVE)
                  ELSE <<Move(index, to_index, None, NORMAL_MOVE)>>)
                 \o (IF get_rank(index) = start_rank /\ b.board[to_index_double] = NoPiece
                     THEN <<Move(index, to_index_double, None, NORMAL_MOVE)>>
                     ELSE <<>>)
            ELSE <<>>
    IN  pushes \o PawnCapture(b, index, -1) \o PawnCapture(b, index, 1)

\* A one-step move of a knight or a king by (dr, df): to an empty square or
\* a capture; none when the target is off the board or holds an own piece.
StepMove(b, index, dr, df) ==
    LET to_rank == get_rank(index) + dr
        to_file == get_file(index) + df
        to_index == to_rank * 8 + to_file
    IN  IF ~OnBoard(to_rank, to_file) THEN <<>>
        ELSE IF b.board[to_index] = NoPiece THEN <<Move(index, to_index, None, NORMAL_MOVE)>>
        ELSE IF b.board[to_index].color # b.turn THEN <<Move(index, to_index, None, CAPTURE)>>
        ELSE <<>>

\* The step moves for the offsets offsets[k], offsets[k + 1], ... in order.
RECURSIVE StepMoves(_, _, _, _)
StepMoves(b, index, offsets, k) ==
    IF k > Len(offsets) THEN <<>>
    ELSE StepMove(b, index, offsets[k][1], offsets[k][2]) \o StepMoves(b, index, offsets, k + 1)

\* get_pseudo_legal_moves, "Sliding Moves": one ray from step i on.
RECURSIVE SlideRay(_, _, _, _, _)
SlideRay(b, index, dr, df, i) ==
    LET to_rank == get_rank(index) + i * dr
        to_file == get_file(index) + i * df
        to_index == to_rank * 8 + to_file
    IN  IF i >= 8 \/ ~OnBoard(to_rank, to_file) THEN <<>>
        ELSE IF b.board[to_index] = NoPiece
        THEN <<Move(index, to_index, None, NORMAL_MOVE)>> \o SlideRay(b, index, dr, df, i + 1)
        ELSE IF b.board[to_index].color # b.turn
        THEN <<Move(index, to_index, None, CAPTURE)>>
        ELSE <<>>

\* The rays for the directions dirs[k], dirs[k + 1], ... in order.
RECURSIVE SlidingMoves(_, _, _, _)
SlidingMoves(b, index, dirs, k) ==
    IF k > Len(dirs) THEN <<>>
    ELSE SlideRay(b, index, dirs[k][1], dirs[k][2], 1) \o SlidingMoves(b, index, dirs, k + 1)

\* The offsets of the king's loop "for dr in [-1, 0, 1]: for df in [-1, 0, 1]".
KING_STEPS == << <<-1, -1>>, <<-1, 0>>, <<-1, 1>>, <<0, -1>>,
                 <<0, 1>>, <<1, -1>>, <<1, 0>>, <<1, 1>> >>

\* get_pseudo_legal_moves, one castling side: the rights bit is set, the
\* squares named in between are empty and the squares named in path are
\* not attacked by the opponent.
CastlingSide(b, index, bit, between, path, to_name) ==
    IF /\ HasRight(b.castling_rights, bit)
       /\ \A k \in 1..Len(between) : b.board[square_to_index(between[k])] = NoPiece
       /\ \A k \in 1..Len(path) : \A sq \in {square_to_index(path[k])} :
              ~is_attacked(b, sq, Opponent(b.turn))
    THEN <<Move(index, square_to_index(to_name), None, CASTLING)>>
    ELSE <<>>

\* The squares the king-side castling tests: <<empty ones, unattacked ones>>.
KingSideSquares(rank) ==
    << << <<"f", rank>>, <<"g", rank>> >>,
       << <<"e", rank>>, <<"f", rank>>, <<"g", rank>> >> >>

\* A faulty variant of QueenSideSquares: the b-file square next to the rook
\* is not tested for emptiness.
QueenSideSquaresWithoutB(rank) ==
    << << <<"d", rank>>, <<"c", rank>> >>,
       << <<"e", rank>>, <<"d", rank>>, <<"c", rank>> >> >>

\* The squares the queen-side castling tests: <<empty ones, unattacked ones>>.
QueenSideSquares(rank) ==
    << << <<"d", rank>>, <<"c", rank>>, <<"b", rank>> >>,
       << <<"e", rank>>, <<"d", rank>>, <<"c", rank>> >> >>

\* get_pseudo_legal_moves, "Castling moves" of the king on index.
CastlingMoves(b, index) ==
    IF is_in_check(b, b.turn) THEN <<>>
    ELSE LET rank == IF b.turn = WHITE THEN "1" ELSE "8"
             ks == KingSideSquares(rank)
             qs == QueenSideSquares(rank)
         IN  CastlingSide(b, index, IF b.turn = WHITE THEN WHITE_KING_SIDE ELSE BLACK_KING_SIDE,
                          ks[1], ks[2], <<"g", rank>>)
             \o CastlingSide(b, index, IF b.turn = WHITE THEN WHITE_QUEEN_SIDE ELSE BLACK_QUEEN_SIDE,
                             qs[1], qs[2], <<"c", rank>>)

\* The moves get_pseudo_legal_moves generates for the piece on index.
PieceMoves(b, index) ==
    LET piece == b.board[index] IN
    IF piece = NoPiece \/ piece.color # b.turn THEN <<>>
    ELSE IF piece.type = PAWN THEN PawnMoves(b, index)
    ELSE IF piece.type = KNIGHT THEN StepMoves(b, index, KNIGHT_MOVES, 1)
    ELSE IF piece.type = BISHOP THEN SlidingMoves(b, index, BISHOP_DIRECTIONS, 1)
    ELSE IF piece.type = ROOK THEN SlidingMoves(b, index, ROOK_DIRECTIONS, 1)
    ELSE IF piece.type = QUEEN THEN SlidingMoves(b, index, QUEEN_DIRECTIONS, 1)
    ELSE StepMoves(b, index, KING_STEPS, 1) \o CastlingMoves(b, index)

\* The loop of get_pseudo_legal_moves over the squares lo..hi, in order
\* (the range is halved to keep the evaluation shallow).
RECURSIVE PseudoLegalRange(_, _, _)
PseudoLegalRange(b, lo, hi) ==
    IF lo = hi THEN The({PieceMoves(b, index) : index \in {lo}})
    ELSE LET mid == (lo + hi) \div 2 IN
         PseudoLegalRange(b, lo, mid) \o PseudoLegalRange(b, mid + 1, hi)

get_pseudo_legal_moves(b) == PseudoLegalRange(b, 0, 63)

\* A faulty variant of LeavesKingSafe: the king of the side now to move is
\* tested instead of the king of the side that moved.
LeavesOtherKingSafe(made, current_player) == ~is_in_check(made, made.turn)

\* get_legal_moves, the test on the board after the move was made: the king
\* of current_player, the side that moved, is not in check.
LeavesKingSafe(made, current_player) == ~is_in_check(made, current_player)

\* The loop of get_legal_moves over pseudo[lo..hi], in order: each move is
\* made, the mover's king tested and the move unmade, on the one board
\* object. The result is the list of moves kept and the board the loop
\* leaves behind (the range is halved to keep the evaluation shallow).
RECURSIVE LegalLoop(_, _, _, _, _)
LegalLoop(b, pseudo, lo, hi, current_player) ==
    IF lo > hi THEN [moves |-> <<>>, board |-> b]
    ELSE IF lo = hi
    THEN The({[moves |-> IF LeavesKingSafe(made, current_player) THEN <<pseudo[lo]>> ELSE <<>>,
               board |-> unmake_move(made)] : made \in {make_move(b, pseudo[lo])}})
    ELSE The({The({[moves |-> first.moves \o rest.moves, board |-> rest.board] :
                   rest \in {LegalLoop(first.board, pseudo, ((lo + hi) \div 2) + 1, hi,
                                       current_player)}}) :
              first \in {LegalLoop(b, pseudo, lo, (lo + hi) \div 2, current_player)}})

\* get_legal_moves as a call: the returned list and the board after the call.
LegalMovesCall(b) ==
    The({LegalLoop(b, pseudo, 1, Len(pseudo), b.turn) : pseudo \in {get_pseudo_legal_moves(b)}})

get_legal_moves(b) == LegalMovesCall(b).moves

(***************************************************************************)
(* chess_logic.py: terminal-state detection                                *)
(***************************************************************************)
is_checkmate(b) ==
    IF ~is_in_check(b, b.turn) THEN FALSE ELSE Len(get_legal_moves(b)) = 0

is_stalemate(b) ==
    IF is_in_check(b, b.turn) THEN FALSE ELSE Len(get_legal_moves(b)) = 0

\* A faulty variant of BishopsOnOneColor: the square colours are not compared.
BishopsOnAnyColor(all_bishops) == TRUE

\* is_insufficient_material, the last test: all bishops stand on squares of
\* one colour, (rank + file) % 2.
BishopsOnOneColor(all_bishops) ==
    \A i, j \in all_bishops :
        (get_rank(i) + get_file(i)) % 2 = (get_rank(j) + get_file(j)) % 2

is_insufficient_material(b) ==
    LET Count(color, piece_type) ==
            Cardinality({i \in 0..63 : b.board[i] = Piece(piece_type, color)})
        Pieces(color) ==
            Cardinality({i \in 0..63 : b.board[i] # NoPiece /\ b.board[i].type # KING
                                         /\ b.board[i].color = color})
        has_pawns_or_majors(color) ==
            \E i \in 0..63 : b.board[i].color = color /\ b.board[i].type \in {PAWN, ROOK, QUEEN}
        all_bishops == {i \in 0..63 : b.board[i] # NoPiece /\ b.board[i].type = BISHOP}
        w_pieces == Pieces(WHITE)
        b_pieces == Pieces(BLACK)
    IN  \/ w_pieces = 0 /\ b_pieces = 0
        \/ w_pieces = 0 /\ b_pieces = 1 /\ Count(BLACK, KNIGHT) = 1
        \/ b_pieces = 0 /\ w_pieces = 1 /\ Count(WHITE, KNIGHT) = 1
        \/ w_pieces = 0 /\ b_pieces = 1 /\ Count(BLACK, BISHOP) = 1
        \/ b_pieces = 0 /\ w_pieces = 1 /\ Count(WHITE, BISHOP) = 1
        \/ /\ ~has_pawns_or_majors(WHITE) /\ ~has_pawns_or_majors(BLACK)
           /\ Count(WHITE, KNIGHT) = 0 /\ Count(BLACK, KNIGHT) = 0
           /\ all_bishops # {}
           /\ BishopsOnOneColor(all_bishops)

\* A faulty variant of is_fifty_move_rule: the clock has to pass 100.
is_fifty_move_rule_after_100(b) == b.halfmove_clock > 100

is_fifty_move_rule(b) == b.halfmove_clock >= 100

\* A faulty variant of is_threefold_repetition: two occurrences are enough.
is_twofold_repetition(b) ==
    LET current_hash == PositionHash(b)
        count == IF current_hash \in DOMAIN b.position_history
                 THEN b.position_history[current_hash] ELSE 0
    IN  count >= 2

is_threefold_repetition(b) ==
    LET current_hash == PositionHash(b)
        count == IF current_hash \in DOMAIN b.position_history
                 THEN b.position_history[current_hash] ELSE 0
    IN  count >= 3

\* A faulty variant of get_game_state: the draws by the clock and by
\* repetition are tested before mate and stalemate.
get_game_state_draws_first(b) ==
    IF is_fifty_move_rule(b) THEN FIFTY_MOVE_RULE
    ELSE IF is_threefold_repetition(b) THEN THREEFOLD_REPETITION
    ELSE IF is_checkmate(b) THEN CHECKMATE
    ELSE IF is_stalemate(b) THEN STALEMATE
    ELSE IF is_insufficient_material(b) THEN INSUFFICIENT_MATERIAL
    ELSE ONGOING

get_game_state(b) ==
    IF is_checkmate(b) THEN CHECKMATE
    ELSE IF is_stalemate(b) THEN STALEMATE
    ELSE IF is_insufficient_material(b) THEN INSUFFICIENT_MATERIAL
    ELSE IF is_fifty_move_rule(b) THEN FIFTY_MOVE_RULE
    ELSE IF is_threefold_repetition(b) THEN THREEFOLD_REPETITION
    ELSE ONGOING

is_game_over(b) == get_game_state(b) # ONGOING

\* A faulty variant of get_outcome: the side to move, which is the mated
\* side, is named the winner.
get_outcome_side_to_move(b) ==
    LET state == get_game_state(b) IN
    IF state = CHECKMATE THEN b.turn
    ELSE None

\* The winner's colour, None for a draw or an unfinished game.
get_outcome(b) ==
    LET state == get_game_state(b) IN
    IF state = CHECKMATE THEN (IF b.turn = WHITE THEN BLACK ELSE WHITE)
    ELSE None

(***************************************************************************)
(* The games explored: the FEN strings a Board is constructed from, and    *)
(* for each of them scripted lines of play. In a position on a script the  *)
(* caller may play any legal move, the scripted one or another; a game     *)
(* that has left its scripts is not played further. A game has at most     *)
(* MaxPly moves on its history stack.                                      *)
(***************************************************************************)
MaxPly == 10

Uci(from_file, from_rank, to_file, to_rank, promotion) ==
    [from_sq |-> square_to_index(<<from_file, from_rank>>),
     to_sq |-> square_to_index(<<to_file, to_rank>>),
     promotion |-> promotion]

FENS ==
  [start |->
        <<<<"r", "n", "b", "q", "k", "b", "n", "r", "/",
           "p", "p", "p", "p", "p", "p", "p", "p", "/",
           "8", "/",
           "8", "/",
           "8", "/",
           "8", "/",
           "P", "P", "P", "P", "P", "P", "P", "P", "/",
           "R", "N", "B", "Q", "K", "B", "N", "R">>,
          "w", <<"K", "Q", "k", "q">>, <<"-">>, 0, 1>>,
    shuffle92 |->
        <<<<"r", "n", "b", "q", "k", "b", "n", "r", "/",
           "p", "p", "p", "p", "p", "p", "p", "p", "/",
           "8", "/",
           "8", "/",
           "8", "/",
           "8", "/",
           "P", "P", "P", "P", "P", "P", "P", "P", "/",
           "R", "N", "B", "Q", "K", "B", "N", "R">>,
          "w", <<"K", "Q", "k", "q">>, <<"-">>, 92, 47>>,
    kqk99 |->
        <<<<"7", "k", "/",
           "8", "/",
           "6", "K", "1", "/",
           "8", "/",
           "8", "/",
           "5", "Q", "2", "/",
           "8", "/",
           "8">>,
          "w", <<"-">>, <<"-">>, 99, 90>>,
    kbk98 |->
        <<<<"8", "/",
           "8", "/",
           "8", "/",
           "4", "k", "3", "/",
           "8", "/",
           "8", "/",
           "8", "/",
           "4", "K", "B", "2">>,
          "w", <<"-">>, <<"-">>, 98, 70>>,
    krk98 |->
        <<<<"4", "k", "3", "/",
           "8", "/",
           "8", "/",
           "8", "/",
           "8", "/",
           "8", "/",
           "8", "/",
           "R", "3", "K", "3">>,
          "w", <<"Q">>, <<"-">>, 98, 60>>]

FoolsMate ==
    <<Uci("f", "2", "f", "3", None), Uci("e", "7", "e", "5", None), 
     Uci("g", "2", "g", "4", None), Uci("d", "8", "h", "4", None)>>

KingSideCastling ==
    <<Uci("e", "2", "e", "4", None), Uci("e", "7", "e", "5", None), 
     Uci("g", "1", "f", "3", None), Uci("g", "8", "f", "6", None), 
     Uci("f", "1", "c", "4", None), Uci("f", "8", "c", "5", None), 
     Uci("e", "1", "g", "1", None), Uci("e", "8", "g", "8", None)>>

QueenSideCastling ==
    <<Uci("d", "2", "d", "4", None), Uci("d", "7", "d", "5", None), 
     Uci("c", "1", "f", "4", None), Uci("c", "8", "f", "5", None), 
     Uci("d", "1", "d", "3", None), Uci("d", "8", "d", "6", None), 
     Uci("b", "1", "c", "3", None), Uci("b", "8", "c", "6", None), 
     Uci("e", "1", "c", "1", None), Uci("e", "8", "c", "8", None)>>

EnPassantLine ==
    <<Uci("e", "2", "e", "4", None), Uci("a", "7", "a", "6", None), 
     Uci("e", "4", "e", "5", None), Uci("d", "7", "d", "5", None), 
     Uci("e", "5", "d", "6", None)>>

PromotionLine ==
    <<Uci("h", "2", "h", "4", None), Uci("g", "7", "g", "5", None), 
     Uci("h", "4", "g", "5", None), Uci("g", "8", "f", "6", None), 
     Uci("g", "5", "f", "6", None), Uci("a", "7", "a", "6", None), 
     Uci("f", "6", "e", "7", None), Uci("a", "6", "a", "5", None), 
     Uci("e", "7", "d", "8", QUEEN)>>

KnightShuffle ==
    <<Uci("g", "1", "f", "3", None), Uci("g", "8", "f", "6", None), 
     Uci("f", "3", "g", "1", None), Uci("f", "6", "g", "8", None), 
     Uci("g", "1", "f", "3", None), Uci("g", "8", "f", "6", None), 
     Uci("f", "3", "g", "1", None), Uci("f", "6", "g", "8", None)>>

CornerCapture ==
    <<Uci("b", "2", "b", "3", None), Uci("g", "7", "g", "6", None), 
     Uci("c", "1", "b", "2", None), Uci("a", "7", "a", "6", None), 
     Uci("b", "2", "h", "8", None)>>

SCRIPTS ==
  [start |-> {FoolsMate, KingSideCastling, QueenSideCastling, EnPassantLine, PromotionLine,
              KnightShuffle, CornerCapture},
   shuffle92 |-> {KnightShuffle},
   kqk99 |-> {},
   kbk98 |-> {<<Uci("e", "1", "e", "2", None), Uci("e", "5", "e", "6", None)>>},
   krk98 |-> {<<Uci("e", "1", "c", "1", None), Uci("e", "8", "e", "7", None)>>}]

FenNames == DOMAIN FENS

\* The moves played are the first moves of the script line.
IsPrefix(played, line) ==
    /\ Len(played) <= Len(line)
    /\ \A k \in 1..Len(played) : MoveEq(played[k], line[k])

\* The game is in its constructed position or on one of its scripts.
OnScript(played) ==
    \/ played = <<>>
    \/ \E line \in SCRIPTS[fen] : IsPrefix(played, line)

Played == [i \in 1..Len(history) |-> history[i].move]

(***************************************************************************)
(* The material test as a function of the pieces on the board: a Board is  *)
(* constructed from the FEN of the two kings and at most MaxExtra further  *)
(* pieces on the squares MaterialSquares, and the caller looks at it.      *)
(***************************************************************************)
MaxExtra == 2

\* c3 and e5 are squares of one colour, d5 of the other.
MaterialSquares ==
    {square_to_index(<<"c", "3">>), square_to_index(<<"e", "5">>),
     square_to_index(<<"d", "5">>)}

ExtraKinds == {Piece(t, c) : t \in {PAWN, KNIGHT, BISHOP, ROOK, QUEEN}, c \in {WHITE, BLACK}}

KingsOnly ==
    [sq \in 0..63 |-> IF sq = square_to_index(<<"a", "1">>) THEN Piece(KING, WHITE)
                      ELSE IF sq = square_to_index(<<"h", "8">>) THEN Piece(KING, BLACK)
                      ELSE NoPiece]

\* The ways to put at most MaxExtra further pieces on MaterialSquares.
Placements ==
    {extras \in [MaterialSquares -> ExtraKinds \cup {NoPiece}] :
        Cardinality({sq \in MaterialSquares : extras[sq] # NoPiece}) <= MaxExtra}

\* _generate_fen, one rank of the placement field from file f on.
RECURSIVE RankField(_, _, _, _)
RankField(squares, r, f, empty_count) ==
    LET gap == IF empty_count > 0 THEN <<DIGITS[empty_count + 1]>> ELSE <<>> IN
    IF f > 7 THEN gap
    ELSE LET piece == squares[r * 8 + f] IN
         IF piece # NoPiece
         THEN gap \o <<IF piece.color = WHITE THEN UPPER_PIECE_CHARS[piece.type]
                                              ELSE LOWER_PIECE_CHARS[piece.type]>>
                  \o RankField(squares, r, f + 1, 0)
         ELSE RankField(squares, r, f + 1, empty_count + 1)

\* _generate_fen, the placement field from rank r down to rank 0.
RECURSIVE PlacementField(_, _)
PlacementField(squares, r) ==
    RankField(squares, r, 0, 0)
    \o (IF r > 0 THEN <<"/">> \o PlacementField(squares, r - 1) ELSE <<>>)

\* The squares of the kings and the pieces extras.
Placed(extras) ==
    [sq \in 0..63 |-> IF sq \in MaterialSquares THEN extras[sq] ELSE KingsOnly[sq]]

\* The FEN "<placement> w - - 0 1" of the squares.
MaterialFen(squares) == <<PlacementField(squares, 7), "w", <<"-">>, <<"-">>, 0, 1>>

\* The Boards constructed from the FENs of the placements.
MaterialBoards == {NewBoard(MaterialFen(Placed(extras))) : extras \in Placements}

(***************************************************************************)
(* The Board object as a state machine                                     *)
(***************************************************************************)
\* The live Board object as a board record.
Self ==
    [board |-> board, turn |-> turn, castling_rights |-> castling_rights,
     en_passant_target |-> en_passant_target, halfmove_clock |-> halfmove_clock,
     fullmove_number |-> fullmove_number, history |-> history,
     position_history |-> position_history]

\* The caller looks at the board b: it asks for the legal moves, keeps the
\* list, and asks for the game state; the Board object is left as the
\* get_legal_moves call leaves it.
Observe(b) ==
    \E call \in {LegalMovesCall(b)} :
        /\ board' = call.board.board
        /\ turn' = call.board.turn
        /\ castling_rights' = call.board.castling_rights
        /\ en_passant_target' = call.board.en_passant_target
        /\ halfmove_clock' = call.board.halfmove_clock
        /\ fullmove_number' = call.board.fullmove_number
        /\ history' = call.board.history
        /\ position_history' = call.board.position_history
        /\ legal_moves' = call.moves
        /\ game_state' = get_game_state(call.board)

\* Board(fen), then the caller's first look at it.
Init ==
    /\ fen \in FenNames
    /\ \E constructed \in {NewBoard(FENS[fen])} : \E call \in {LegalMovesCall(constructed)} :
        /\ board = call.board.board
        /\ turn = call.board.turn
        /\ castling_rights = call.board.castling_rights
        /\ en_passant_target = call.board.en_passant_target
        /\ halfmove_clock = call.board.halfmove_clock
        /\ fullmove_number = call.board.fullmove_number
        /\ history = call.board.history
        /\ position_history = call.board.position_history
        /\ legal_moves = call.moves
        /\ game_state = get_game_state(call.board)
    /\ NoOthers

\* The caller plays a move of its list with make_move and looks at the board.
MakeMove ==
    /\ Len(history) < MaxPly
    /\ OnScript(Played)
    /\ \E k \in 1..Len(legal_moves) :
       \E after \in {make_move(Self, legal_moves[k])} : Observe(after)
    /\ UNCHANGED <<fen, other_vars>>

\* The caller takes the last move back with unmake_move and looks at the
\* board.
UnmakeMove ==
    /\ \E after \in {unmake_move(Self)} : Observe(after)
    /\ UNCHANGED <<fen, other_vars>>

Next == MakeMove \/ UnmakeMove

Spec == Init /\ [][Next]_vars

\* Board(fen) for the FEN of a placement; the caller has not looked yet.
InitMaterial ==
    /\ fen = "material"
    /\ \E constructed \in MaterialBoards :
        /\ board = constructed.board
        /\ turn = constructed.turn
        /\ castling_rights = constructed.castling_rights
        /\ en_passant_target = constructed.en_passant_target
        /\ halfmove_clock = constructed.halfmove_clock
        /\ fullmove_number = constructed.fullmove_number
        /\ history = constructed.history
        /\ position_history = constructed.position_history
    /\ legal_moves = <<>>
    /\ game_state = None
    /\ NoOthers

\* The caller looks at the board as it is.
Look ==
    /\ \E b \in {Self} : Observe(b)
    /\ UNCHANGED <<fen, other_vars>>

NextMaterial == Look

SpecMaterial == InitMaterial /\ [][NextMaterial]_vars

(***************************************************************************)
(* chess_logic.py: Board.copy                                              *)
(*                                                                         *)
(* Two Python objects may hold the same list or dict. A reference to a     *)
(* Board is modelled as the record of its fields together with the set of  *)
(* its containers (of BOARD_CONTAINERS) that are the very objects another  *)
(* Board holds: what is written into such a container through one Board   *)
(* is seen through the other.                                              *)
(***************************************************************************)
\* The fields of a Board that make_move and unmake_move change in place;
\* the other fields are numbers, assigned anew.
BOARD_CONTAINERS == {"board", "history", "position_history"}

\* Board.copy: the fields of the new Board. Every piece is constructed anew,
\* the history list is a new empty list, the table is dict.copy() of the
\* original's.
copy(b) ==
    [board |-> [sq \in 0..63 |-> IF b.board[sq] = NoPiece THEN NoPiece
                                 ELSE Piece(b.board[sq].type, b.board[sq].color)],
     turn |-> b.turn,
     castling_rights |-> b.castling_rights,
     en_passant_target |-> b.en_passant_target,
     halfmove_clock |-> b.halfmove_clock,
     fullmove_number |-> b.fullmove_number,
     history |-> <<>>,
     position_history |-> b.position_history]

\* A faulty variant of CopyShares: new_board.position_history is the
\* original's dict itself, not a copy of it.
CopySharesTable == {"position_history"}

\* Board.copy: the containers of the new Board that are the original's own
\* objects. The list comprehension, [] and dict.copy() each make a new
\* object, and the pieces in the new list are new Piece objects.
CopyShares == {}

\* The Board other as it is seen after a Board sharing the containers
\* shared with it has become after.
SeenThrough(other, after, shared) ==
    [other EXCEPT !.board = IF "board" \in shared THEN after.board ELSE @,
                  !.history = IF "history" \in shared THEN after.history ELSE @,
                  !.position_history = IF "position_history" \in shared
                                       THEN after.position_history ELSE @]

(***************************************************************************)
(* chess_gui.py: ChessGUI                                                  *)
(*                                                                         *)
(* A world record w holds what a handler of ChessGUI reads and writes:     *)
(* w.b the live Board (self.board), w.legal_moves and w.game_state what    *)
(* get_legal_moves() and get_game_state() return on it (looked up each     *)
(* time the live Board is replaced or moved on), w.gui the fields of the   *)
(* ChessGUI object, w.after_calls the callbacks scheduled with root.after, *)
(* w.threads the running background threads, w.shown the "Game Over"       *)
(* message boxes shown. A handler is an operator from the world before the *)
(* call to the world after it.                                             *)
(*                                                                         *)
(* Three fields of w.gui are not fields of the object but a record of the  *)
(* run: game, the ordinal of the game in progress (1 for the Board of the  *)
(* constructor, one more with each Board of start_new_game); games_over,   *)
(* the ordinals of the games whose live Board reached a terminal state;    *)
(* module_at_start, the strategy loaded when the game in progress began.   *)
(* move_history_text stands for the text widget of the moves: one entry    *)
(* per move made by perform_move, with the facts of the moment it was made.*)
(***************************************************************************)
MODE_PVP == "Player vs Player"
MODE_PVC == "Player vs Computer"

\* None where a module or the name of a strategy is expected.
NO_AI == "None"

\* populate_ai_menu: the sorted names of the strategy files in ai_strategies.
AVAILABLE_AIS == <<"ai_alphabeta", "ai_minimax", "ai_random">>

\* What find_best_move returned: a Move object, None, or an object that is
\* neither.
NoMove == Move(None, None, None, NORMAL_MOVE)

AiValue(kind, move) == [kind |-> kind, move |-> move]

\* Move.uci raises: index_to_square raises ValueError on an index outside
\* 0..63, and the promotion letter is PIECE_NAMES.get(promotion, "")[0],
\* an IndexError for a promotion that is truthy and no piece type.
UciRaises(move) ==
    \/ ~(move.from_sq \in 0..63)
    \/ ~(move.to_sq \in 0..63)
    \/ ~(move.promotion \in {None, 0}) /\ ~(move.promotion \in PAWN..KING)

\* PIECE_NAMES, by piece type PAWN..KING; a name is the sequence of its
\* characters.
PIECE_NAMES ==
    <<<<"P", "a", "w", "n">>, <<"K", "n", "i", "g", "h", "t">>,
      <<"B", "i", "s", "h", "o", "p">>, <<"R", "o", "o", "k">>,
      <<"Q", "u", "e", "e", "n">>, <<"K", "i", "n", "g">>>>

\* Move.__str__ where it returns (UciRaises tells where it raises): the two
\* square names and, for a promotion that is truthy,
\* PIECE_NAMES.get(self.promotion, "")[0].lower().
uci(move) ==
    index_to_square(move.from_sq) \o index_to_square(move.to_sq)
        \o (IF move.promotion \in {None, 0} THEN <<>>
            ELSE <<lower(PIECE_NAMES[move.promotion][1])>>)

\* str.upper() of one character that is a letter a-z or has no upper case.
upper(char) ==
    IF InList(LOWER_LETTERS, char) THEN UPPER_LETTERS[ListIndex(LOWER_LETTERS, char) + 1]
    ELSE char

\* A faulty variant of get_san: the empty origin square is not looked for.
get_san_of_any_square(b, move) == <<"?">> \o index_to_square(move.to_sq)

\* ChessGUI.get_san(move) on the live Board b, for a move with squares on
\* the board: the text as the sequence of its characters.
get_san(b, move) ==
    LET piece == b.board[move.from_sq]
        name == PIECE_NAMES[piece.type]
        piece_char == IF piece.type # PAWN /\ upper(name[1]) # "P"
                      THEN <<upper(name[1])>> ELSE <<>>
        dest_sq == index_to_square(move.to_sq)
        is_capture == b.board[move.to_sq] # NoPiece \/ move.flags = EN_PASSANT
        san == piece_char
               \o (IF piece.type = PAWN /\ is_capture
                   THEN <<FILES[get_file(move.from_sq) + 1]>> ELSE <<>>)
               \o (IF is_capture THEN <<"x">> ELSE <<>>)
               \o dest_sq
               \o (IF move.promotion \in {None, 0} THEN <<>>
                   ELSE <<"=", upper(PIECE_NAMES[move.promotion][1])>>)
    IN  IF piece = NoPiece THEN uci(move)
        ELSE IF move.flags = CASTLING /\ dest_sq \in {<<"g", "1">>, <<"g", "8">>}
        THEN <<"O", "-", "O">>
        ELSE IF move.flags = CASTLING /\ dest_sq \in {<<"c", "1">>, <<"c", "8">>}
        THEN <<"O", "-", "O", "-", "O">>
        ELSE san

\* add_move_to_history(move, piece) on the live Board b: the number put
\* before a move of White (None for a move of Black), the notation, and
\* the piece the caller passed.
add_move_to_history(b, move, piece) ==
    [number |-> IF piece.color = WHITE THEN b.fullmove_number ELSE None,
     notation |-> get_san(b, move),
     piece |-> piece]

\* root.after(ms, callback, ai_move): module and triggered_on are the
\* strategy and the live Board of the calculation the callback ends.
AfterCall(callback, ai_move, module, triggered_on) ==
    [callback |-> callback, ai_move |-> ai_move, module |-> module,
     triggered_on |-> triggered_on]

\* The world with the live Board b, looked at.
WithBoard(w, b) ==
    The({The({[w EXCEPT !.b = call.board,
                        !.legal_moves = call.moves,
                        !.game_state = state] :
              state \in {get_game_state(call.board)}}) :
         call \in {LegalMovesCall(b)}})

\* update_status; is_game_over() on the live Board is w.game_state # ONGOING.
update_status(w) ==
    IF w.gui.game_over_message_shown THEN w
    ELSE IF w.game_state # ONGOING
    THEN [w EXCEPT !.gui.ai_thinking = FALSE,
                   !.after_calls = Append(@, AfterCall("show_game_over_message",
                                                       AiValue("None", NoMove), NO_AI, <<>>))]
    ELSE w

\* A faulty variant of board_copy_for_ai: the thread is given the live
\* Board itself.
board_not_copied(b) == [object |-> b, shared |-> BOARD_CONTAINERS]

\* trigger_ai_move, "board_copy_for_ai = self.board.copy()".
board_copy_for_ai(b) == [object |-> copy(b), shared |-> CopyShares]

\* threading.Thread(target=self._ai_calculation_thread,
\* args=(board_copy_for_ai,)): the thread holds board_instance; module is
\* the strategy whose find_best_move it runs, triggered_on the live Board at
\* the start. legal_moves is what get_legal_moves() returned to the
\* strategy once it has asked (looked), depth the number of moves it has
\* made and not taken back.
Thread(w) ==
    The({[board_instance |-> ref.object,
          shared |-> ref.shared,
          looked |-> FALSE,
          legal_moves |-> <<>>,
          depth |-> 0,
          module |-> w.gui.ai_module,
          triggered_on |-> w.b] :
         ref \in {board_copy_for_ai(w.b)}})

trigger_ai_move(w) ==
    IF w.gui.ai_module = NO_AI
    THEN update_status([w EXCEPT !.gui.game_mode = MODE_PVP])
    ELSE IF w.gui.game_mode # MODE_PVC \/ w.b.turn = w.gui.player_color THEN w
    ELSE The({[thinking EXCEPT !.threads = Append(@, Thread(thinking))] :
              thinking \in {update_status([w EXCEPT !.gui.ai_thinking = TRUE])}})

\* add_move_to_history: the entry of the move made, by the handler
\* by.handler with the strategy by.module; by.fallback tells that
\* get_fallback_move chose it. w is the world before make_move, made the
\* live Board after it; text is what is put into the widget.
HistoryEntry(w, made, move, by) ==
    [move |-> move,
     text |-> add_move_to_history(made, move, w.b.board[move.from_sq]),
     handler |-> by.handler,
     module |-> by.module,
     fallback |-> by.fallback,
     legal |-> \E k \in 1..Len(w.legal_moves) : MoveEq(w.legal_moves[k], move),
     game_over |-> w.game_state # ONGOING,
     game_mode |-> w.gui.game_mode,
     engines_turn |-> w.b.turn # w.gui.player_color]

\* A faulty variant of AfterMove: the engine is asked for its move whether or
\* not the game is over.
AfterMoveAlwaysTriggering(moved) ==
    The({IF /\ status.gui.game_mode = MODE_PVC
            /\ status.b.turn # status.gui.player_color
            /\ ~status.gui.ai_thinking
         THEN trigger_ai_move(status)
         ELSE status :
         status \in {update_status(moved)}})

\* perform_move, after the move was made and the lists were cleared.
AfterMove(moved) ==
    The({IF status.game_state # ONGOING
         THEN IF ~status.gui.game_over_message_shown
              THEN [status EXCEPT !.after_calls =
                        Append(@, AfterCall("show_game_over_message",
                                            AiValue("None", NoMove), NO_AI, <<>>))]
              ELSE status
         ELSE IF /\ status.gui.game_mode = MODE_PVC
                 /\ status.b.turn # status.gui.player_color
                 /\ ~status.gui.ai_thinking
         THEN trigger_ai_move(status)
         ELSE status :
         status \in {update_status(moved)}})

\* A faulty variant of perform_move: the selection is kept when the move is
\* made.
perform_move_keeping_selection(w, move, by) ==
    IF ~(move.from_sq \in 0..63) \/ w.b.board[move.from_sq] = NoPiece
    THEN [w EXCEPT !.gui.selected_square = None, !.gui.possible_moves = <<>>]
    ELSE IF MakeMoveRaises(w.b, move) THEN w
    ELSE The({The({AfterMove([moved EXCEPT
                       !.gui.games_over = IF moved.game_state # ONGOING
                                          THEN @ \cup {w.gui.game} ELSE @]) :
                   moved \in {WithBoard(
                       [w EXCEPT !.gui.move_history_text = Append(@, HistoryEntry(w, made, move, by))],
                       made)}}) :
              made \in {make_move(w.b, move)}})

\* perform_move. A ValueError of make_move leaves the handler with nothing
\* changed.
perform_move(w, move, by) ==
    IF ~(move.from_sq \in 0..63) \/ w.b.board[move.from_sq] = NoPiece
    THEN [w EXCEPT !.gui.selected_square = None, !.gui.possible_moves = <<>>]
    ELSE IF MakeMoveRaises(w.b, move) THEN w
    ELSE The({The({AfterMove([moved EXCEPT
                       !.gui.games_over = IF moved.game_state # ONGOING
                                          THEN @ \cup {w.gui.game} ELSE @]) :
                   moved \in {WithBoard(
                       [w EXCEPT !.gui.move_history_text = Append(@, HistoryEntry(w, made, move, by)),
                                 !.gui.selected_square = None,
                                 !.gui.possible_moves = <<>>],
                       made)}}) :
              made \in {make_move(w.b, move)}})

\* populate_ai_menu: the strategy name is kept if it is one of the files.
populate_ai_menu(w) ==
    IF ~InList(AVAILABLE_AIS, w.gui.ai_strategy_name)
    THEN [w EXCEPT !.gui.ai_strategy_name = AVAILABLE_AIS[1]]
    ELSE w

\* load_ai_strategy returns True: the name is not empty and the module was
\* imported and has find_best_move (imported).
LoadSucceeds(ai_name, imported) == ai_name # NO_AI /\ imported

load_ai_strategy(w, ai_name, imported) ==
    IF LoadSucceeds(ai_name, imported)
    THEN [w EXCEPT !.gui.ai_module = ai_name, !.gui.ai_strategy_name = ai_name]
    ELSE [w EXCEPT !.gui.ai_module = NO_AI, !.gui.ai_strategy_name = NO_AI]

\* A faulty variant of AiBusy: the handlers never find the engine busy.
AiNeverBusy(w) == FALSE

\* "if self.ai_thinking:", the test start_new_game and select_ai_strategy
\* begin with.
AiBusy(w) == w.gui.ai_thinking

select_ai_strategy(w, ai_name, imported) ==
    IF AiBusy(w) THEN populate_ai_menu(w)
    ELSE IF ai_name = w.gui.ai_strategy_name THEN w
    ELSE IF LoadSucceeds(ai_name, imported) THEN load_ai_strategy(w, ai_name, imported)
    ELSE populate_ai_menu(load_ai_strategy(w, ai_name, imported))

\* Board(), looked at: the starting position, its legal moves and its state.
STARTING_BOARD ==
    The({The({[b |-> call.board, legal_moves |-> call.moves,
               game_state |-> get_game_state(call.board)] :
              call \in {LegalMovesCall(constructed)}}) :
         constructed \in {NewBoard(FENS.start)}})

\* start_new_game, from "Ensure the AI strategy selected in the menu is
\* actually loaded" on.
NewGameStarts(fresh, imported) ==
    LET name == fresh.gui.ai_strategy_name
        to_pvp == [fresh EXCEPT !.gui.game_mode = MODE_PVP, !.gui.player_color = WHITE]
        loaded == IF fresh.gui.game_mode = MODE_PVC /\ fresh.gui.ai_module = NO_AI
                  THEN IF name # NO_AI
                       THEN IF LoadSucceeds(name, imported)
                            THEN load_ai_strategy(fresh, name, imported)
                            ELSE load_ai_strategy(to_pvp, name, imported)
                       ELSE to_pvp
                  ELSE fresh
        status == update_status([loaded EXCEPT !.gui.module_at_start = loaded.gui.ai_module])
    IN  IF status.gui.game_mode = MODE_PVC /\ status.b.turn # status.gui.player_color
        THEN IF status.gui.ai_module = NO_AI
             THEN update_status([status EXCEPT !.gui.game_mode = MODE_PVP])
             ELSE trigger_ai_move(status)
        ELSE status

start_new_game(w, mode, human_color, imported) ==
    IF AiBusy(w) THEN w
    ELSE The({NewGameStarts(
                  [w EXCEPT !.b = start.b,
                            !.legal_moves = start.legal_moves,
                            !.game_state = start.game_state,
                            !.gui.selected_square = None,
                            !.gui.possible_moves = <<>>,
                            !.gui.game_mode = mode,
                            !.gui.player_color = IF mode = MODE_PVC THEN human_color ELSE WHITE,
                            !.gui.ai_thinking = FALSE,
                            !.gui.game_over_message_shown = FALSE,
                            !.gui.move_history_text = <<>>,
                            !.gui.game = @ + 1],
                  imported) :
              start \in {STARTING_BOARD}})

\* on_square_click, "Second Click" on a possible destination: the
\* promotion moves among the possible moves to clicked_index, when the
\* selected pawn lands on its last rank; the promotion dialog is shown if
\* there are any.
promotion_moves_to(w, clicked_index) ==
    LET potential_moves == SelectSeq(w.gui.possible_moves, LAMBDA m : m.to_sq = clicked_index)
        origin_piece == w.b.board[w.gui.selected_square]
        to_rank == get_rank(clicked_index)
        is_promotion_landing ==
            /\ origin_piece # NoPiece
            /\ origin_piece.type = PAWN
            /\ \/ origin_piece.color = WHITE /\ to_rank = 7
               \/ origin_piece.color = BLACK /\ to_rank = 0
    IN  IF is_promotion_landing
        THEN SelectSeq(potential_moves, LAMBDA m : m.promotion # None)
        ELSE <<>>

\* A faulty variant of MoveToMake: the dialog is not asked, the first
\* stored move to the square is made.
MoveToMakeFirstStored(w, clicked_index, promo_choice) ==
    SelectSeq(w.gui.possible_moves, LAMBDA m : m.to_sq = clicked_index)[1]

\* The move to make, NoMove if there is none. promo_choice is what
\* ask_promotion_choice returns, None when the dialog is closed.
MoveToMake(w, clicked_index, promo_choice) ==
    LET potential_moves == SelectSeq(w.gui.possible_moves, LAMBDA m : m.to_sq = clicked_index)
        promotion_moves == promotion_moves_to(w, clicked_index)
        chosen == SelectSeq(promotion_moves, LAMBDA m : m.promotion = promo_choice)
    IN  IF promotion_moves # <<>>
        THEN IF promo_choice # None /\ chosen # <<>> THEN chosen[1] ELSE NoMove
        ELSE potential_moves[1]

\* on_square_click for a click on the square clicked_index, None for a
\* click outside the board.
on_square_click(w, clicked_index, promo_choice) ==
    IF w.game_state # ONGOING \/ w.gui.ai_thinking THEN w
    ELSE IF w.gui.game_mode = MODE_PVC /\ w.b.turn # w.gui.player_color THEN w
    ELSE IF clicked_index = None THEN w
    ELSE
    LET clicked_piece == w.b.board[clicked_index]
        own_piece == clicked_piece # NoPiece /\ clicked_piece.color = w.b.turn
        from_here == SelectSeq(w.legal_moves, LAMBDA m : m.from_sq = clicked_index)
        selected == [w EXCEPT !.gui.selected_square = IF from_here = <<>> THEN None
                                                       ELSE clicked_index,
                              !.gui.possible_moves = from_here]
        deselected == [w EXCEPT !.gui.selected_square = None, !.gui.possible_moves = <<>>]
        is_possible_destination ==
            \E k \in 1..Len(w.gui.possible_moves) : w.gui.possible_moves[k].to_sq = clicked_index
    IN  IF w.gui.selected_square = None
        THEN IF own_piece THEN selected ELSE w
        ELSE IF clicked_index = w.gui.selected_square THEN deselected
        ELSE IF is_possible_destination
        THEN The({IF move_to_make # NoMove
                  THEN perform_move(w, move_to_make, [handler |-> "on_square_click",
                                                      module |-> NO_AI,
                                                      fallback |-> FALSE])
                  ELSE deselected :
                  move_to_make \in {MoveToMake(w, clicked_index, promo_choice)}})
        ELSE IF own_piece THEN selected
        ELSE deselected

\* show_game_over_message: the box shows the state of the live Board.
show_game_over_message(w) ==
    IF w.gui.game_over_message_shown THEN w
    ELSE [w EXCEPT !.gui.game_over_message_shown = TRUE,
                   !.shown = Append(@, [game |-> w.gui.game, state |-> w.game_state])]

\* _process_ai_result from "if actual_move_to_make:" on: the validated
\* move is made, and where there is none (NoMove)
\* "fallback_move = self.get_fallback_move()" and what follows it:
\* random.choice picks legal_moves[choice]; without legal moves the game is
\* announced as over.
ApplyAiMove(w, actual_move_to_make, choice, by) ==
    IF actual_move_to_make = NoMove /\ w.legal_moves = <<>>
    THEN show_game_over_message(update_status(w))
    ELSE perform_move(w, IF actual_move_to_make # NoMove THEN actual_move_to_make
                         ELSE w.legal_moves[choice],
                      [by EXCEPT !.fallback = actual_move_to_make = NoMove])

\* A faulty variant of ValidatedMove: the move of the strategy is taken as
\* it is.
MoveNotValidated(live_moves, ai_move) == ai_move

\* _process_ai_result, the loop over the live legal moves: the first that
\* has the origin, the destination and the promotion of ai_move.
ValidatedMove(live_moves, ai_move) ==
    LET matches == SelectSeq(live_moves, LAMBDA legal_move :
                       /\ legal_move.from_sq = ai_move.from_sq
                       /\ legal_move.to_sq = ai_move.to_sq
                       /\ legal_move.promotion = ai_move.promotion)
    IN  IF matches # <<>> THEN matches[1] ELSE NoMove

\* _process_ai_result for the scheduled call. An exception of
\* ai_move.uci() in the error message leaves the handler: Tk reports it
\* and the event loop goes on.
process_ai_result(w, call, choice) ==
    LET done == [w EXCEPT !.gui.ai_thinking = FALSE]
        by == [handler |-> "process_ai_result", module |-> call.module, fallback |-> FALSE]
        actual_move_to_make == ValidatedMove(done.legal_moves, call.ai_move.move)
        is_move == call.ai_move.kind = "Move"
    IN  IF done.game_state # ONGOING THEN update_status(done)
        ELSE IF done.gui.game_mode # MODE_PVC \/ done.b.turn = done.gui.player_color
        THEN update_status(done)
        ELSE IF is_move /\ actual_move_to_make = NoMove /\ UciRaises(call.ai_move.move)
        THEN done
        ELSE IF ~is_move /\ call.ai_move.kind = "None" /\ done.legal_moves = <<>>
        THEN show_game_over_message(update_status(done))
        ELSE ApplyAiMove(done,
                          IF is_move /\ actual_move_to_make # NoMove
                          THEN actual_move_to_make ELSE NoMove,
                          choice, by)

\* _handle_ai_error for the scheduled call.
handle_ai_error(w, call, choice) ==
    LET done == [w EXCEPT !.gui.ai_thinking = FALSE]
        by == [handler |-> "handle_ai_error", module |-> call.module, fallback |-> TRUE]
    IN  IF \/ done.game_state # ONGOING
           \/ done.gui.game_mode = MODE_PVC /\ done.b.turn = done.gui.player_color
        THEN update_status(done)
        ELSE IF done.legal_moves # <<>>
        THEN perform_move(update_status(done), done.legal_moves[choice], by)
        ELSE show_game_over_message(update_status(done))

(***************************************************************************)
(* The user interface as a state machine. The user clicks on the squares   *)
(* ClickSquares or outside the board, starts games from the menu and       *)
(* selects the strategies SELECTABLE_AIS; the background thread tries      *)
(* moves on its Board and ends with find_best_move returning or raising.   *)
(* The user's moves follow GUI_SCRIPTS (a game that has left the script is *)
(* not clicked further); at most MaxGames Boards are constructed;          *)
(* random.choice picks among the first MaxChoice legal moves and the       *)
(* thread tries the first MaxTried.                                        *)
(***************************************************************************)
MaxGames == 2

MaxChoice == 2

MaxTried == 1

GUI_SCRIPTS == {FoolsMate}

\* The squares of the moves of FoolsMate.
ClickSquares ==
    {square_to_index(<<"f", "2">>), square_to_index(<<"f", "3">>),
     square_to_index(<<"e", "7">>), square_to_index(<<"e", "5">>),
     square_to_index(<<"g", "2">>), square_to_index(<<"g", "4">>),
     square_to_index(<<"d", "8">>), square_to_index(<<"h", "4">>)}

\* The promotion dialog is closed, or left with the preselected queen.
PromoChoices == {None, QUEEN}

\* What the user may answer to a click of on_square_click: None where no
\* promotion dialog is shown.
PromotionAnswers(w, clicked_index) ==
    IF /\ clicked_index # None
       /\ w.gui.selected_square # None
       /\ promotion_moves_to(w, clicked_index) # <<>>
    THEN PromoChoices
    ELSE {None}

SELECTABLE_AIS == {"ai_minimax"}

\* Moves no position of the script allows: from the empty square e4, of
\* the rook a8 over its own pawn, and from an index that is no square.
BAD_MOVES ==
    {Move(square_to_index(<<"e", "4">>), square_to_index(<<"e", "5">>), None, NORMAL_MOVE),
     Move(square_to_index(<<"a", "8">>), square_to_index(<<"a", "6">>), None, NORMAL_MOVE),
     Move(64, 0, None, NORMAL_MOVE)}

\* The played moves followed by move are the first moves of a script.
StaysOnScript(played, move) ==
    \E line \in GUI_SCRIPTS : IsPrefix(Append(played, move), line)

\* The game is on one of GUI_SCRIPTS.
GuiOnScript(played) == \E line \in GUI_SCRIPTS : IsPrefix(played, line)

\* What find_best_move of some plug-in may return to the thread t: the
\* scripted move or one of the first MaxTried of the legal moves it has
\* asked for, a move of BAD_MOVES, None, or an object that is not a Move.
PluginValues(t) ==
    {AiValue("Move", t.legal_moves[k]) :
        k \in {k \in 1..Len(t.legal_moves) :
                  \/ k <= MaxTried
                  \/ StaysOnScript([i \in 1..Len(t.triggered_on.history) |->
                                       t.triggered_on.history[i].move], t.legal_moves[k])}}
    \cup {AiValue("Move", m) : m \in BAD_MOVES}
    \cup {AiValue("None", NoMove), AiValue("other", NoMove)}

\* The indexes random.choice may pick in a list of n moves.
Choices(n) == {k \in 1..n : k <= MaxChoice} \cup {1}

World ==
    [b |-> Self, legal_moves |-> legal_moves, game_state |-> game_state,
     gui |-> gui, after_calls |-> after_calls, threads |-> threads, shown |-> shown]

\* The world after the step is w.
Becomes(w) ==
    /\ board' = w.b.board
    /\ turn' = w.b.turn
    /\ castling_rights' = w.b.castling_rights
    /\ en_passant_target' = w.b.en_passant_target
    /\ halfmove_clock' = w.b.halfmove_clock
    /\ fullmove_number' = w.b.fullmove_number
    /\ history' = w.b.history
    /\ position_history' = w.b.position_history
    /\ legal_moves' = w.legal_moves
    /\ game_state' = w.game_state
    /\ gui' = w.gui
    /\ after_calls' = w.after_calls
    /\ threads' = w.threads
    /\ shown' = w.shown
    /\ UNCHANGED <<fen, new_board, more_vars, best_move>>

Remove(s, i) == SubSeq(s, 1, i - 1) \o SubSeq(s, i + 1, Len(s))

\* ChessGUI.__init__: Board(), the fields, load_ai_strategy("ai_random").
InitGui ==
    /\ fen = "start"
    /\ \E start \in {STARTING_BOARD} :
        /\ board = start.b.board
        /\ turn = start.b.turn
        /\ castling_rights = start.b.castling_rights
        /\ en_passant_target = start.b.en_passant_target
        /\ halfmove_clock = start.b.halfmove_clock
        /\ fullmove_number = start.b.fullmove_number
        /\ history = start.b.history
        /\ position_history = start.b.position_history
        /\ legal_moves = start.legal_moves
        /\ game_state = start.game_state
    /\ \E imported \in BOOLEAN :
           gui = [selected_square |-> None,
                  possible_moves |-> <<>>,
                  player_color |-> WHITE,
                  game_mode |-> MODE_PVP,
                  ai_module |-> IF imported THEN "ai_random" ELSE NO_AI,
                  ai_thinking |-> FALSE,
                  ai_strategy_name |-> IF imported THEN "ai_random" ELSE NO_AI,
                  game_over_message_shown |-> FALSE,
                  move_history_text |-> <<>>,
                  game |-> 1,
                  games_over |-> {},
                  module_at_start |-> IF imported THEN "ai_random" ELSE NO_AI]
    /\ after_calls = <<>>
    /\ threads = <<>>
    /\ shown = <<>>
    /\ NoMore
    /\ new_board = None
    /\ best_move = NoCall

\* The user clicks on the canvas.
OnSquareClick ==
    /\ GuiOnScript(Played)
    /\ \E clicked_index \in ClickSquares \cup {None} :
       \E promo_choice \in PromotionAnswers(World, clicked_index) :
       \E w \in {on_square_click(World, clicked_index, promo_choice)} : Becomes(w)

\* The three "New Game" entries of the menu: the mode and the human's color.
NewGameEntries == {<<MODE_PVP, WHITE>>, <<MODE_PVC, WHITE>>, <<MODE_PVC, BLACK>>}

\* The user picks one of the three "New Game" entries of the menu.
StartNewGame ==
    /\ gui.game < MaxGames \/ AiBusy(World)
    /\ \E new \in NewGameEntries, imported \in BOOLEAN :
       \E w \in {start_new_game(World, new[1], new[2], imported)} : Becomes(w)

\* The user picks a strategy in the menu.
SelectAiStrategy ==
    \E ai_name \in SELECTABLE_AIS, imported \in BOOLEAN :
    \E w \in {select_ai_strategy(World, ai_name, imported)} : Becomes(w)

\* The thread i goes on as the record after: the live Board holds the
\* containers it shares with the Board of the thread.
ThreadMoves(i, after) ==
    \E live \in {SeenThrough(Self, after.board_instance, threads[i].shared)} :
        /\ board' = live.board
        /\ history' = live.history
        /\ position_history' = live.position_history
        /\ threads' = [threads EXCEPT ![i] = after]
        /\ UNCHANGED <<turn, castling_rights, en_passant_target, halfmove_clock,
                       fullmove_number, fen, legal_moves, game_state, gui, after_calls,
                       shown, new_board, more_vars, best_move>>

\* The strategy run by a thread calls get_legal_moves() on its Board,
ThreadGetLegalMoves ==
    \E i \in 1..Len(threads) :
        /\ ~threads[i].looked
        /\ \E call \in {LegalMovesCall(threads[i].board_instance)} :
               ThreadMoves(i, [threads[i] EXCEPT !.board_instance = call.board,
                                                 !.looked = TRUE,
                                                 !.legal_moves = call.moves])

\* makes one of the moves on it ...
ThreadMakeMove ==
    \E i \in 1..Len(threads) :
        /\ threads[i].depth = 0
        /\ \E k \in 1..Len(threads[i].legal_moves) :
               /\ k <= MaxTried
               /\ \E after \in {make_move(threads[i].board_instance, threads[i].legal_moves[k])} :
                      ThreadMoves(i, [threads[i] EXCEPT !.board_instance = after, !.depth = 1])

\* ... and takes it back.
ThreadUnmakeMove ==
    \E i \in 1..Len(threads) :
        /\ threads[i].depth > 0
        /\ \E after \in {unmake_move(threads[i].board_instance)} :
               ThreadMoves(i, [threads[i] EXCEPT !.board_instance = after, !.depth = 0])

\* _ai_calculation_thread: find_best_move returns and the thread schedules
\* _process_ai_result.
ThreadReturns ==
    \E i \in 1..Len(threads) : \E ai_move \in PluginValues(threads[i]) :
        /\ after_calls' = Append(after_calls,
               AfterCall("process_ai_result", ai_move, threads[i].module,
                         threads[i].triggered_on))
        /\ threads' = Remove(threads, i)
        /\ UNCHANGED <<board_vars, gui, shown, new_board, more_vars, best_move>>

\* _ai_calculation_thread: find_best_move raises and the thread schedules
\* _handle_ai_error.
ThreadRaises ==
    \E i \in 1..Len(threads) :
        /\ after_calls' = Append(after_calls,
               AfterCall("handle_ai_error", AiValue("None", NoMove), threads[i].module,
                         threads[i].triggered_on))
        /\ threads' = Remove(threads, i)
        /\ UNCHANGED <<board_vars, gui, shown, new_board, more_vars, best_move>>

\* Tk runs a scheduled show_game_over_message.
ShowGameOverMessage ==
    \E i \in 1..Len(after_calls) :
        /\ after_calls[i].callback = "show_game_over_message"
        /\ \E w \in {show_game_over_message([World EXCEPT !.after_calls = Remove(@, i)])} :
               Becomes(w)

\* Tk runs a scheduled _process_ai_result.
ProcessAiResult ==
    \E i \in 1..Len(after_calls) :
        /\ after_calls[i].callback = "process_ai_result"
        /\ \E choice \in Choices(Len(legal_moves)) :
           \E w \in {process_ai_result([World EXCEPT !.after_calls = Remove(@, i)],
                                       after_calls[i], choice)} : Becomes(w)

\* Tk runs a scheduled _handle_ai_error.
HandleAiError ==
    \E i \in 1..Len(after_calls) :
        /\ after_calls[i].callback = "handle_ai_error"
        /\ \E choice \in Choices(Len(legal_moves)) :
           \E w \in {handle_ai_error([World EXCEPT !.after_calls = Remove(@, i)],
                                     after_calls[i], choice)} : Becomes(w)

NextGui ==
    \/ OnSquareClick
    \/ StartNewGame
    \/ SelectAiStrategy
    \/ ThreadGetLegalMoves
    \/ ThreadMakeMove
    \/ ThreadUnmakeMove
    \/ ThreadReturns
    \/ ThreadRaises
    \/ ShowGameOverMessage
    \/ ProcessAiResult
    \/ HandleAiError

SpecGui == InitGui /\ [][NextGui]_vars

(***************************************************************************)
(* Properties                                                              *)
(***************************************************************************)
\* C1: for every move m of the legal-move list of the position, make_move(m)
\* followed at once by unmake_move() gives back the piece on each of the 64
\* squares, the side to move, the castling rights, the en-passant target,
\* the half-move clock and the full-move number of the position.
MakeUnmakeRestores ==
    \A k \in 1..Len(legal_moves) :
        LET undone == unmake_move(make_move(Self, legal_moves[k])) IN
        /\ undone.board = board
        /\ undone.turn = turn
        /\ undone.castling_rights = castling_rights
        /\ undone.en_passant_target = en_passant_target
        /\ undone.halfmove_clock = halfmove_clock
        /\ undone.fullmove_number = fullmove_number

\* A position of a game from the starting position in which an en-passant
\* capture is legal.
EnPassantIsLegal ==
    /\ fen = "start"
    /\ \E k \in 1..Len(legal_moves) : legal_moves[k].flags = EN_PASSANT

\* C2: the legal-move list is the pseudo-legal list, in its order, without
\* the moves after which the king of the side that moved is attacked.
LegalIsSafePseudoLegal ==
    LET KingSafeAfter(m) ==
            LET made == make_move(Self, m)
                king_pos == find_king(made, turn)
            IN  king_pos = None \/ ~is_attacked(made, king_pos, Opponent(turn))
    IN  legal_moves = SelectSeq(get_pseudo_legal_moves(Self), KingSafeAfter)

\* A position in which the side to move is in check and some pseudo-legal
\* moves are legal and others are not.
SomeMovesFiltered ==
    /\ is_in_check(Self, turn)
    /\ legal_moves # <<>>
    /\ Len(legal_moves) < Len(get_pseudo_legal_moves(Self))

\* C3: a move flagged CASTLING is in the legal-move list only if the rights
\* bit of that side and wing is set, every square between the king and that
\* rook is empty, the king is not in check, and the king's square, the
\* square it passes and its destination are not attacked by the opponent.
CastlingOnlyWhenAllowed ==
    \A k \in 1..Len(legal_moves) :
        LET m == legal_moves[k]
            king_side == m.to_sq > m.from_sq
            bit == IF turn = WHITE
                   THEN (IF king_side THEN WHITE_KING_SIDE ELSE WHITE_QUEEN_SIDE)
                   ELSE (IF king_side THEN BLACK_KING_SIDE ELSE BLACK_QUEEN_SIDE)
            rook_sq == get_rank(m.from_sq) * 8 + (IF king_side THEN 7 ELSE 0)
            between == {sq \in 0..63 : \/ m.from_sq < sq /\ sq < rook_sq
                                       \/ rook_sq < sq /\ sq < m.from_sq}
            passed == (m.from_sq + m.to_sq) \div 2
        IN  m.flags = CASTLING =>
                /\ HasRight(castling_rights, bit)
                /\ \A sq \in between : board[sq] = NoPiece
                /\ ~is_in_check(Self, turn)
                /\ \A sq \in {m.from_sq, passed, m.to_sq} :
                       ~is_attacked(Self, sq, Opponent(turn))

\* A position of a game from the starting position in which castling to the
\* queen side is legal.
QueenSideCastlingIsLegal ==
    /\ fen = "start"
    /\ \E k \in 1..Len(legal_moves) :
           legal_moves[k].flags = CASTLING /\ legal_moves[k].to_sq < legal_moves[k].from_sq

\* C4: when the side to move is in check and has no legal move the state is
\* CHECKMATE and get_outcome() is the colour not to move; after 1.f3 e5 2.g4
\* Qh4 from the starting position the state is CHECKMATE and the outcome
\* BLACK; in every other state get_outcome() is None.
CheckmateAndOutcome ==
    LET outcome == get_outcome(Self) IN
    /\ (is_in_check(Self, turn) /\ legal_moves = <<>>) =>
           (game_state = CHECKMATE /\ outcome = Opponent(turn))
    /\ (fen = "start" /\ Len(Played) = Len(FoolsMate) /\ IsPrefix(Played, FoolsMate)) =>
           (game_state = CHECKMATE /\ outcome = BLACK)
    /\ (game_state \in DRAW_STATES \cup {ONGOING}) => outcome = None

\* The position after 1.f3 e5 2.g4 Qh4, seen as mate.
FoolsMatePlayed ==
    /\ fen = "start"
    /\ Len(Played) = Len(FoolsMate) /\ IsPrefix(Played, FoolsMate)
    /\ game_state = CHECKMATE
    /\ is_in_check(Self, turn) /\ legal_moves = <<>>

\* C5: the game state is the first that holds of CHECKMATE (in check, no
\* legal move), STALEMATE (not in check, no legal move),
\* INSUFFICIENT_MATERIAL, FIFTY_MOVE_RULE, THREEFOLD_REPETITION, and ONGOING
\* if none holds; is_game_over() is true exactly when it is not ONGOING.
GameStatePriority ==
    LET in_check == is_in_check(Self, turn)
        no_moves == legal_moves = <<>>
        first == IF in_check /\ no_moves THEN CHECKMATE
                 ELSE IF ~in_check /\ no_moves THEN STALEMATE
                 ELSE IF is_insufficient_material(Self) THEN INSUFFICIENT_MATERIAL
                 ELSE IF is_fifty_move_rule(Self) THEN FIFTY_MOVE_RULE
                 ELSE IF is_threefold_repetition(Self) THEN THREEFOLD_REPETITION
                 ELSE ONGOING
    IN  /\ game_state = first
        /\ is_game_over(Self) <=> (game_state # ONGOING)

\* A mating move that brings the half-move clock to 100.
MateAtClock100 ==
    /\ game_state = CHECKMATE
    /\ is_fifty_move_rule(Self)
    /\ history # <<>>

\* The position fingerprints along the current line of play from move k on:
\* the moves on the history stack are played again from the board b.
RECURSIVE LineHashes(_, _)
LineHashes(b, k) ==
    IF k > Len(history) THEN <<PositionHash(b)>>
    ELSE <<PositionHash(b)>> \o LineHashes(make_move(b, history[k].move), k + 1)

\* How often the current position (placement, side to move, castling rights,
\* en-passant target) has occurred on the current line of play, the
\* constructed position and the current one included.
LineCount ==
    LET hashes == LineHashes(NewBoard(FENS[fen]), 1) IN
    Cardinality({k \in 1..Len(hashes) : hashes[k] = PositionHash(Self)})

\* No state that get_game_state() tests before the repetition holds.
NoStateBeforeRepetition ==
    /\ legal_moves # <<>>
    /\ ~is_insufficient_material(Self)
    /\ halfmove_clock < 100

\* C6 as stated: the state is THREEFOLD_REPETITION when the current position
\* occurs for the third time on the current line of play, and never while
\* it has occurred fewer than three times.
ThreefoldOnThirdOccurrence ==
    /\ LineCount >= 3 => game_state = THREEFOLD_REPETITION
    /\ game_state = THREEFOLD_REPETITION => LineCount >= 3

\* C6 (amended): is_threefold_repetition() is true exactly when the current
\* position has occurred at least three times on the current line of play,
\* positions undone by unmake_move not counted; the state is
\* THREEFOLD_REPETITION then if no state tested before it holds (mate,
\* stalemate, insufficient material, fifty-move rule), and never while the
\* position has occurred fewer than three times.
ThreefoldUnlessEarlierState ==
    /\ is_threefold_repetition(Self) <=> LineCount >= 3
    /\ (LineCount >= 3 /\ NoStateBeforeRepetition) => game_state = THREEFOLD_REPETITION
    /\ game_state = THREEFOLD_REPETITION => LineCount >= 3

\* The third occurrence of a position, reported as THREEFOLD_REPETITION.
ThirdOccurrenceReported ==
    /\ LineCount = 3
    /\ game_state = THREEFOLD_REPETITION

\* The last move made was a pawn move or a capture.
LastMoveResetsClock ==
    LET entry == history[Len(history)] IN
    \/ board[entry.move.to_sq].type = PAWN
    \/ entry.move.promotion # None
    \/ entry.captured_piece # NoPiece

\* C7: a move that is neither a pawn move nor a capture adds one to the
\* half-move clock; with the clock at 100 is_fifty_move_rule() is true and
\* the state is FIFTY_MOVE_RULE unless mate, stalemate or insufficient
\* material holds; with the clock at 99 or less neither is reported.
FiftyMoveAtClock100 ==
    /\ (history # <<>> /\ ~LastMoveResetsClock) =>
           halfmove_clock = history[Len(history)].old_halfmove + 1
    /\ halfmove_clock = 100 =>
           /\ is_fifty_move_rule(Self)
           /\ (legal_moves # <<>> /\ ~is_insufficient_material(Self)) =>
                  game_state = FIFTY_MOVE_RULE
    /\ halfmove_clock <= 99 =>
           /\ ~is_fifty_move_rule(Self)
           /\ game_state # FIFTY_MOVE_RULE

\* A quiet move took the clock from 99 to 100 and the draw is reported.
ClockReached100 ==
    /\ history # <<>>
    /\ history[Len(history)].old_halfmove = 99
    /\ halfmove_clock = 100
    /\ game_state = FIFTY_MOVE_RULE

\* C8: is_insufficient_material() is true exactly when the pieces besides
\* the kings are: none; one knight; one bishop; or bishops only (one or
\* more, of either side), all on squares of one (rank + file) % 2 parity.
\* It is false with any pawn, rook or queen on the board and for any other
\* set of minor pieces; the state INSUFFICIENT_MATERIAL is reported only
\* for such a set.
InsufficientMaterialSets ==
    LET others == {sq \in 0..63 : board[sq].type \notin {EMPTY, KING}}
        Parity(sq) == ((sq \div 8) + (sq % 8)) % 2
        listed ==
            \/ others = {}
            \/ Cardinality(others) = 1 /\ \A sq \in others : board[sq].type = KNIGHT
            \/ Cardinality(others) = 1 /\ \A sq \in others : board[sq].type = BISHOP
            \/ /\ others # {}
               /\ \A sq \in others : board[sq].type = BISHOP
               /\ \A sq1, sq2 \in others : Parity(sq1) = Parity(sq2)
    IN  /\ is_insufficient_material(Self) <=> listed
        /\ game_state = INSUFFICIENT_MATERIAL => listed
        /\ (\E sq \in others : board[sq].type \in {PAWN, ROOK, QUEEN}) =>
               ~is_insufficient_material(Self)

\* Two bishops on squares of one colour and nothing else: seen as a draw.
TwoBishopsOneColor ==
    /\ Cardinality({sq \in 0..63 : board[sq].type = BISHOP}) = 2
    /\ game_state = INSUFFICIENT_MATERIAL

\* C9: after make_move of a pawn's two-square advance to S the en-passant
\* target is the square the pawn skipped, directly behind S; after make_move
\* of any other move it is None.
EnPassantTargetAfterMove ==
    history # <<>> =>
        LET last == history[Len(history)].move
            S == last.to_sq
            double_push == /\ board[S].type = PAWN
                           /\ (S - last.from_sq = 16 \/ last.from_sq - S = 16)
        IN  IF double_push
            THEN /\ en_passant_target = (IF board[S].color = WHITE THEN S - 8 ELSE S + 8)
                 /\ 2 * en_passant_target = last.from_sq + S
            ELSE en_passant_target = None

\* Black has just made a double push: the target is the skipped square.
BlackDoublePushed ==
    /\ history # <<>>
    /\ turn = WHITE
    /\ en_passant_target # None

\* C10: the Board of the starting FEN has 20 legal moves, 8 single pawn
\* pushes, 8 double pawn pushes and 4 knight moves; after any one of them
\* Black has 20 legal moves.
StartPositionMoveCounts ==
    LET Moves(piece_type, distance) ==
            {k \in 1..Len(legal_moves) :
                /\ board[legal_moves[k].from_sq].type = piece_type
                /\ distance \in {0, legal_moves[k].to_sq - legal_moves[k].from_sq}}
    IN  /\ (fen = "start" /\ history = <<>>) =>
               /\ Len(legal_moves) = 20
               /\ Cardinality(Moves(PAWN, 8)) = 8
               /\ Cardinality(Moves(PAWN, 16)) = 8
               /\ Cardinality(Moves(KNIGHT, 0)) = 4
        /\ (fen = "start" /\ Len(history) = 1) =>
               (turn = BLACK /\ Len(legal_moves) = 20)

\* White has opened with a double pawn push and Black has 20 legal moves.
BlackHasTwentyReplies ==
    /\ fen = "start"
    /\ Len(history) = 1
    /\ history[1].move.to_sq - history[1].move.from_sq = 16
    /\ Len(legal_moves) = 20

(***************************************************************************)
(* Properties of the user interface (SpecGui).                             *)
(***************************************************************************)
\* The scheduled callbacks that end a calculation.
AiCalls == {i \in 1..Len(after_calls) :
               after_calls[i].callback \in {"process_ai_result", "handle_ai_error"}}

\* A calculation is in flight: its thread runs, or its result waits for Tk.
CalculationPending == threads # <<>> \/ AiCalls # {}

\* C11: at most one background calculation is in flight at any time (a
\* running thread or its scheduled result), and while one is in flight
\* start_new_game and select_ai_strategy, whatever their arguments, leave
\* the live Board, the game mode and the loaded strategy as they are.
OneCalculationInFlight ==
    /\ Len(threads) + Cardinality(AiCalls) <= 1
    /\ CalculationPending =>
           /\ \A new \in NewGameEntries, imported \in BOOLEAN :
                  \E w \in {start_new_game(World, new[1], new[2], imported)} :
                      /\ w.b = Self
                      /\ w.gui.game_mode = gui.game_mode
                      /\ w.gui.ai_module = gui.ai_module
                      /\ w.threads = threads
           /\ \A ai_name \in SELECTABLE_AIS \cup {"ai_random"}, imported \in BOOLEAN :
                  \E w \in {select_ai_strategy(World, ai_name, imported)} :
                      /\ w.b = Self
                      /\ w.gui.game_mode = gui.game_mode
                      /\ w.gui.ai_module = gui.ai_module
                      /\ w.threads = threads

\* The engine is calculating its answer to a move of the human.
CalculationAfterHumanMove ==
    /\ Len(threads) = 1
    /\ gui.game_mode = MODE_PVC
    /\ gui.ai_thinking
    /\ history # <<>>

\* The position of a Board: what a player sees of it.
Position(b) ==
    [board |-> b.board, turn |-> b.turn, castling_rights |-> b.castling_rights,
     en_passant_target |-> b.en_passant_target, halfmove_clock |-> b.halfmove_clock,
     fullmove_number |-> b.fullmove_number]

\* C12: while a calculation is in flight the live Board is not mutated: the
\* thread works on a Board that shares no container with the live one,
\* clicks on the board change nothing, and from the start of the thread to
\* the processing of its result the live Board is the Board the
\* calculation was triggered on.
LiveBoardUntouchedWhileCalculating ==
    /\ \A i \in 1..Len(threads) :
           /\ threads[i].shared = {}
           /\ threads[i].triggered_on = Self
    /\ \A i \in AiCalls : after_calls[i].triggered_on = Self
    /\ CalculationPending =>
           \A clicked_index \in ClickSquares \cup {None}, promo_choice \in PromoChoices :
               on_square_click(World, clicked_index, promo_choice) = World

\* The thread has made a move on its Board, which is now in another
\* position than the live Board.
ThreadMovedOnItsCopy ==
    \E i \in 1..Len(threads) :
        /\ threads[i].depth = 1
        /\ Position(threads[i].board_instance) # Position(Self)
        /\ threads[i].triggered_on = Self

\* The entries of the moves made by _process_ai_result and _handle_ai_error.
AiEntries ==
    {k \in 1..Len(gui.move_history_text) :
        gui.move_history_text[k].handler \in {"process_ai_result", "handle_ai_error"}}

\* C13: every move made by _process_ai_result or _handle_ai_error was, when
\* it was made, one of get_legal_moves() of the live Board, whatever the
\* strategy returned; it was made in a game that was not over, in Player
\* vs Computer mode, with the engine to move.
AiMovesAreLegal ==
    \A k \in AiEntries :
        /\ gui.move_history_text[k].legal
        /\ ~gui.move_history_text[k].game_over
        /\ gui.move_history_text[k].game_mode = MODE_PVC
        /\ gui.move_history_text[k].engines_turn

\* _process_ai_result has made a move of get_fallback_move in place of
\* what the strategy returned.
FallbackMoveMade ==
    \E k \in AiEntries :
        /\ gui.move_history_text[k].handler = "process_ai_result"
        /\ gui.move_history_text[k].fallback

\* C14: when _process_ai_result or _handle_ai_error runs on the engine's
\* turn in a Player vs Computer game that is not over, whatever the strategy
\* returned or raised, exactly one move is made, it is one of the legal
\* moves of the live Board, the thinking flag is cleared and it is the
\* human's turn. (Refuted by a returned Move whose uci() raises.)
AiAnswerAlwaysMoves ==
    [][(/\ AiCalls # {}
        /\ AiCalls' = {}
        /\ game_state = ONGOING
        /\ gui.game_mode = MODE_PVC
        /\ turn # gui.player_color)
       => /\ Len(history') = Len(history) + 1
          /\ \E k \in 1..Len(legal_moves) :
                 MoveEq(legal_moves[k], history'[Len(history')].move)
          /\ ~gui'.ai_thinking
          /\ turn' = gui.player_color]_vars

\* The scheduled show_game_over_message callbacks.
ShowCalls == {i \in 1..Len(after_calls) :
                 after_calls[i].callback = "show_game_over_message"}

\* The "Game Over" boxes shown for the game g.
ShownFor(g) == {i \in 1..Len(shown) : shown[i].game = g}

\* C15: the "Game Over" box is shown exactly once for every game whose
\* live Board reached a terminal state: a box is only shown for the game
\* in progress when it is over, never twice for a game, and a game that
\* ended has had its box once the scheduled callbacks have run or the next
\* game has begun. (Refuted by a new game started before the callbacks.)
GameOverAnnouncedOnce ==
    /\ \A i \in 1..Len(shown) :
           /\ shown[i].game \in gui.games_over
           /\ shown[i].state # ONGOING
    /\ \A g \in 1..gui.game : Cardinality(ShownFor(g)) <= 1
    /\ \A g \in gui.games_over :
           (g < gui.game \/ ShowCalls = {}) => ShownFor(g) # {}

\* C16: a strategy selected during a game is first used after the next
\* start_new_game: every calculation of the game in progress, and every
\* move the engine has made in it, is by the strategy that was loaded when
\* the game began. (Refuted by a selection made on the human's turn.)
StrategyFixedForGame ==
    /\ \A i \in 1..Len(threads) : threads[i].module = gui.module_at_start
    /\ \A i \in AiCalls : after_calls[i].module = gui.module_at_start
    /\ \A k \in AiEntries : gui.move_history_text[k].module = gui.module_at_start

(***************************************************************************)
(* ai_strategies: ai_random, ai_minimax, ai_alphabeta                      *)
(*                                                                         *)
(* A search works on the one Board object it is given: it makes a move,    *)
(* searches, and takes the move back. Its result is the record of the      *)
(* score, the move (NoMove for None) and the Board as the search leaves    *)
(* it. The loops over the moves are evaluated by halving the range.        *)
(***************************************************************************)
PIECE_VALUES == <<100, 320, 330, 500, 900, 20000>>

MATE_SCORE == 100000

DRAW_SCORE == 0

\* math.inf: above every score (no score exceeds MATE_SCORE).
inf == 10 * MATE_SCORE

\* "for piece in board.board": the sum of the values of the pieces on the
\* squares lo..hi, white pieces counted positive, black negative.
RECURSIVE MaterialScore(_, _, _)
MaterialScore(b, lo, hi) ==
    IF lo = hi
    THEN IF b.board[lo] = NoPiece THEN 0
         ELSE IF b.board[lo].color = WHITE THEN PIECE_VALUES[b.board[lo].type]
         ELSE 0 - PIECE_VALUES[b.board[lo].type]
    ELSE MaterialScore(b, lo, (lo + hi) \div 2) + MaterialScore(b, ((lo + hi) \div 2) + 1, hi)

\* ai_minimax.evaluate_board, from "if game_state != 0" on: game_state is
\* what board.get_game_state() returned.
evaluate_board(b, state) ==
    IF state = CHECKMATE THEN (IF b.turn = WHITE THEN 0 - MATE_SCORE ELSE MATE_SCORE)
    ELSE IF state \in {STALEMATE, 3, 4, 5} THEN DRAW_SCORE
    ELSE MaterialScore(b, 0, 63)

\* What a search returns at a node it does not expand.
Evaluated(score, b) == [score |-> score, move |-> NoMove, board |-> b]

\* ai_minimax.minimax on the bound Board b. state is get_game_state() of
\* the Board: is_game_over() tests it and evaluate_board asks for it again,
\* on the same position (get_legal_moves leaves the position as it was).
RECURSIVE minimax(_, _, _)
RECURSIVE MinimaxLoop(_, _, _, _, _, _)
minimax(b, depth, maximizing_player) ==
    The({IF depth = 0 \/ state # ONGOING THEN Evaluated(evaluate_board(b, state), b)
         ELSE The({IF call.moves = <<>>
                   THEN Evaluated(evaluate_board(call.board, state), call.board)
                   ELSE MinimaxLoop(call.moves, 1, Len(call.moves), depth, maximizing_player,
                                    [score |-> IF maximizing_player THEN 0 - inf ELSE inf,
                                     move |-> NoMove,
                                     board |-> call.board]) :
                   call \in {LegalMovesCall(b)}}) :
         state \in {get_game_state(b)}})

\* "for move in legal_moves" over legal_moves[lo..hi]; found holds max_eval
\* or min_eval, best_move_found and the Board.
MinimaxLoop(legal_moves_here, lo, hi, depth, maximizing_player, found) ==
    IF lo > hi THEN found
    ELSE IF lo = hi
    THEN The({The({The({IF \/ maximizing_player /\ child.score > found.score
                           \/ ~maximizing_player /\ child.score < found.score
                        THEN [score |-> child.score, move |-> legal_moves_here[lo],
                              board |-> unmade]
                        ELSE [found EXCEPT !.board = unmade] :
                        unmade \in {unmake_move(child.board)}}) :
                   child \in {minimax(made, depth - 1, ~maximizing_player)}}) :
              made \in {make_move(found.board, legal_moves_here[lo])}})
    ELSE The({MinimaxLoop(legal_moves_here, ((lo + hi) \div 2) + 1, hi, depth,
                          maximizing_player, first) :
              first \in {MinimaxLoop(legal_moves_here, lo, (lo + hi) \div 2, depth,
                                     maximizing_player, found)}})

\* ai_alphabeta.evaluate_board, from "if game_state != 0" on.
alphabeta_evaluate_board(b, state) ==
    IF state = CHECKMATE THEN (IF b.turn = WHITE THEN 0 - MATE_SCORE ELSE MATE_SCORE)
    ELSE IF state \in {STALEMATE, 3, 4, 5} THEN DRAW_SCORE
    ELSE MaterialScore(b, 0, 63)

\* Move.is_capture.
is_capture(move) == move.flags = CAPTURE \/ move.flags = EN_PASSANT

\* sorted(legal_moves, key=lambda m: m.is_capture(), reverse=True): the
\* sort is stable, the captures come first, each group in its order.
ordered_moves(moves) ==
    SelectSeq(moves, is_capture) \o SelectSeq(moves, LAMBDA m : ~is_capture(m))

\* A faulty variant of Cutoff: the loop is left after the first move.
CutoffAtOnce(alpha, beta) == TRUE

\* "if beta <= alpha: break".
Cutoff(alpha, beta) == beta <= alpha

Max(x, y) == IF x >= y THEN x ELSE y

Min(x, y) == IF x <= y THEN x ELSE y

\* ai_alphabeta.alphabeta on the bound Board b.
RECURSIVE alphabeta(_, _, _, _, _)
RECURSIVE AlphaBetaLoop(_, _, _, _, _, _)
alphabeta(b, depth, alpha, beta, maximizing_player) ==
    The({IF depth = 0 \/ state # ONGOING
         THEN Evaluated(alphabeta_evaluate_board(b, state), b)
         ELSE The({IF call.moves = <<>>
                   THEN Evaluated(alphabeta_evaluate_board(call.board, state), call.board)
                   ELSE The({[score |-> found.score, move |-> found.move,
                              board |-> found.board] :
                             found \in {AlphaBetaLoop(ordered_moves(call.moves), 1,
                                            Len(call.moves), depth, maximizing_player,
                                            [score |-> IF maximizing_player THEN 0 - inf ELSE inf,
                                             move |-> NoMove,
                                             board |-> call.board,
                                             alpha |-> alpha,
                                             beta |-> beta,
                                             broken |-> FALSE])}}) :
                   call \in {LegalMovesCall(b)}}) :
         state \in {get_game_state(b)}})

\* A faulty variant of AlphaBetaLoop: on a cut-off the loop is left before
\* the move is taken back.
AlphaBetaLoopBreakBeforeUnmake(ordered, lo, hi, depth, maximizing_player, found) ==
    IF lo > hi \/ found.broken THEN found
    ELSE IF lo = hi
    THEN The({The({The({
             LET better == \/ maximizing_player /\ child.score > found.score
                           \/ ~maximizing_player /\ child.score < found.score
                 new_alpha == IF maximizing_player THEN Max(found.alpha, child.score)
                              ELSE found.alpha
                 new_beta == IF maximizing_player THEN found.beta
                             ELSE Min(found.beta, child.score)
             IN  [score |-> IF better THEN child.score ELSE found.score,
                  move |-> IF better THEN ordered[lo] ELSE found.move,
                  board |-> IF Cutoff(new_alpha, new_beta) THEN child.board ELSE unmade,
                  alpha |-> new_alpha,
                  beta |-> new_beta,
                  broken |-> Cutoff(new_alpha, new_beta)] :
             unmade \in {unmake_move(child.board)}}) :
         child \in {alphabeta(made, depth - 1, found.alpha, found.beta, ~maximizing_player)}}) :
         made \in {make_move(found.board, ordered[lo])}})
    ELSE The({AlphaBetaLoop(ordered, ((lo + hi) \div 2) + 1, hi, depth,
                            maximizing_player, first) :
              first \in {AlphaBetaLoop(ordered, lo, (lo + hi) \div 2, depth,
                                       maximizing_player, found)}})

\* "for move in ordered_moves" over ordered[lo..hi]; found holds max_eval or
\* min_eval, best_move_found, the Board, alpha, beta, and whether the loop
\* was left with break.
AlphaBetaLoop(ordered, lo, hi, depth, maximizing_player, found) ==
    IF lo > hi \/ found.broken THEN found
    ELSE IF lo = hi
    THEN The({The({The({
             LET better == \/ maximizing_player /\ child.score > found.score
                           \/ ~maximizing_player /\ child.score < found.score
                 new_alpha == IF maximizing_player THEN Max(found.alpha, child.score)
                              ELSE found.alpha
                 new_beta == IF maximizing_player THEN found.beta
                             ELSE Min(found.beta, child.score)
             IN  [score |-> IF better THEN child.score ELSE found.score,
                  move |-> IF better THEN ordered[lo] ELSE found.move,
                  board |-> unmade,
                  alpha |-> new_alpha,
                  beta |-> new_beta,
                  broken |-> Cutoff(new_alpha, new_beta)] :
             unmade \in {unmake_move(child.board)}}) :
         child \in {alphabeta(made, depth - 1, found.alpha, found.beta, ~maximizing_player)}}) :
         made \in {make_move(found.board, ordered[lo])}})
    ELSE The({AlphaBetaLoop(ordered, ((lo + hi) \div 2) + 1, hi, depth,
                            maximizing_player, first) :
              first \in {AlphaBetaLoop(ordered, lo, (lo + hi) \div 2, depth,
                                       maximizing_player, found)}})

\* A faulty variant of fallback_choice: no fallback, None is returned.
no_fallback_choice(moves, choice) == NoMove

\* "return random.choice(legal_moves) if legal_moves else None";
\* random.choice picks legal_moves[choice].
fallback_choice(moves, choice) == IF moves # <<>> THEN moves[choice] ELSE NoMove

\* find_best_move after the search: the move found, or the fallback on the
\* Board as the search left it.
BestOrFallback(found, choice) ==
    IF found.move = NoMove
    THEN The({[move |-> fallback_choice(call.moves, choice), board |-> call.board] :
              call \in {LegalMovesCall(found.board)}})
    ELSE [move |-> found.move, board |-> found.board]

\* ai_random.find_best_move.
random_find_best_move(b, choice) ==
    The({[move |-> IF call.moves = <<>> THEN NoMove ELSE call.moves[choice],
          board |-> call.board] :
         call \in {LegalMovesCall(b)}})

(***************************************************************************)
(* The strategies as a state machine: a Board is constructed from one of   *)
(* AI_FENS, the caller looks at it, and one strategy is asked for its move *)
(* (find_best_move), or the two searches are run to a depth of at most     *)
(* MaxDepth for either player (SearchBoth). best_move records the call.    *)
(***************************************************************************)
MaxDepth == 2

AI_FENS ==
  [pawns_w |->
        <<<<"7", "k", "/", "8", "/", "8", "/", "3", "p", "4", "/",
           "4", "P", "3", "/", "8", "/", "8", "/", "K", "7">>,
          "w", <<"-">>, <<"-">>, 0, 1>>,
   pawns_b |->
        <<<<"7", "k", "/", "8", "/", "8", "/", "3", "p", "4", "/",
           "4", "P", "3", "/", "8", "/", "8", "/", "K", "7">>,
          "b", <<"-">>, <<"-">>, 0, 1>>,
   fork_w |->
        <<<<"7", "k", "/", "8", "/", "8", "/", "2", "p", "1", "p", "3", "/",
           "3", "P", "4", "/", "8", "/", "8", "/", "K", "7">>,
          "w", <<"-">>, <<"-">>, 0, 1>>,
   fork_b |->
        <<<<"7", "k", "/", "8", "/", "8", "/", "2", "p", "1", "p", "3", "/",
           "3", "P", "4", "/", "8", "/", "8", "/", "K", "7">>,
          "b", <<"-">>, <<"-">>, 0, 1>>,
   mate_in_one |->
        <<<<"k", "7", "/", "8", "/", "1", "K", "6", "/", "8", "/",
           "8", "/", "8", "/", "8", "/", "7", "R">>,
          "w", <<"-">>, <<"-">>, 0, 1>>,
   mated |->
        <<<<"R", "6", "k", "/", "8", "/", "6", "K", "1", "/", "8", "/",
           "8", "/", "8", "/", "8", "/", "8">>,
          "b", <<"-">>, <<"-">>, 0, 1>>,
   stalemated |->
        <<<<"k", "7", "/", "2", "Q", "5", "/", "1", "K", "6", "/", "8", "/",
           "8", "/", "8", "/", "8", "/", "8">>,
          "b", <<"-">>, <<"-">>, 0, 1>>,
   two_kings |->
        <<<<"7", "k", "/", "8", "/", "8", "/", "8", "/",
           "8", "/", "8", "/", "8", "/", "K", "7">>,
          "w", <<"-">>, <<"-">>, 0, 1>>,
   pawns_100 |->
        <<<<"7", "k", "/", "8", "/", "8", "/", "3", "p", "4", "/",
           "4", "P", "3", "/", "8", "/", "8", "/", "K", "7">>,
          "b", <<"-">>, <<"-">>, 100, 80>>,
   promotion |->
        <<<<"8", "/", "P", "6", "k", "/", "8", "/", "8", "/",
           "8", "/", "8", "/", "8", "/", "K", "7">>,
          "w", <<"-">>, <<"-">>, 0, 1>>]

\* Board(fen) for one of AI_FENS, looked at.
InitAi ==
    /\ fen \in DOMAIN AI_FENS
    /\ \E constructed \in {NewBoard(AI_FENS[fen])} : \E call \in {LegalMovesCall(constructed)} :
        /\ board = call.board.board
        /\ turn = call.board.turn
        /\ castling_rights = call.board.castling_rights
        /\ en_passant_target = call.board.en_passant_target
        /\ halfmove_clock = call.board.halfmove_clock
        /\ fullmove_number = call.board.fullmove_number
        /\ history = call.board.history
        /\ position_history = call.board.position_history
        /\ legal_moves = call.moves
        /\ game_state = get_game_state(call.board)
    /\ NoOthers

\* The indexes random.choice may pick in the list of the legal moves.
RandomChoices == IF legal_moves = <<>> THEN {1} ELSE 1..Len(legal_moves)

\* find_best_move of strategy has returned move and left the Board as b.
Returned(strategy, move, b) ==
    /\ best_move' = [call |-> "find_best_move", strategy |-> strategy, move |-> move]
    /\ board' = b.board
    /\ turn' = b.turn
    /\ castling_rights' = b.castling_rights
    /\ en_passant_target' = b.en_passant_target
    /\ halfmove_clock' = b.halfmove_clock
    /\ fullmove_number' = b.fullmove_number
    /\ history' = b.history
    /\ position_history' = b.position_history
    /\ UNCHANGED <<fen, legal_moves, game_state, new_board, more_vars, gui, after_calls, threads, shown>>

\* ai_random.find_best_move(board).
RandomFindBestMove ==
    /\ best_move = NoCall
    /\ \E choice \in RandomChoices :
       \E result \in {random_find_best_move(Self, choice)} :
           Returned("ai_random", result.move, result.board)

\* ai_minimax.find_best_move(board), search_depth = 2.
MinimaxFindBestMove ==
    /\ best_move = NoCall
    /\ \E b \in {Self} : \E found \in {minimax(b, 2, b.turn = WHITE)} :
       \E choice \in RandomChoices :
       \E result \in {BestOrFallback(found, choice)} :
           Returned("ai_minimax", result.move, result.board)

\* ai_alphabeta.find_best_move(board), search_depth = 3.
AlphaBetaFindBestMove ==
    /\ best_move = NoCall
    /\ \E b \in {Self} : \E found \in {alphabeta(b, 3, 0 - inf, inf, b.turn = WHITE)} :
       \E choice \in RandomChoices :
       \E result \in {BestOrFallback(found, choice)} :
           Returned("ai_alphabeta", result.move, result.board)

\* minimax and then alphabeta with the full window are run on the Board.
SearchBoth ==
    /\ best_move = NoCall
    /\ \E depth \in 0..MaxDepth, maximizing_player \in BOOLEAN :
       \E b \in {Self} : \E plain \in {minimax(b, depth, maximizing_player)} :
       \E pruned \in {alphabeta(plain.board, depth, 0 - inf, inf, maximizing_player)} :
           /\ best_move' = [call |-> "search", depth |-> depth,
                            maximizing_player |-> maximizing_player,
                            minimax |-> plain.score, alphabeta |-> pruned.score]
           /\ board' = pruned.board.board
           /\ turn' = pruned.board.turn
           /\ castling_rights' = pruned.board.castling_rights
           /\ en_passant_target' = pruned.board.en_passant_target
           /\ halfmove_clock' = pruned.board.halfmove_clock
           /\ fullmove_number' = pruned.board.fullmove_number
           /\ history' = pruned.board.history
           /\ position_history' = pruned.board.position_history
           /\ UNCHANGED <<fen, legal_moves, game_state, new_board, more_vars, gui, after_calls,
                          threads, shown>>

NextAi ==
    \/ RandomFindBestMove
    \/ MinimaxFindBestMove
    \/ AlphaBetaFindBestMove
    \/ SearchBoth

SpecAi == InitAi /\ [][NextAi]_vars

(***************************************************************************)
(* Properties of the strategies (SpecAi).                                  *)
(***************************************************************************)
\* C17: find_best_move of ai_random, ai_minimax and ai_alphabeta returns
\* None exactly when get_legal_moves() of the Board is empty, and otherwise
\* one of the legal moves, also when the Board it is given is drawn with
\* legal moves left.
FindBestMoveReturnsLegal ==
    best_move.call = "find_best_move" =>
        /\ best_move.move = NoMove <=> legal_moves = <<>>
        /\ best_move.move # NoMove =>
               \E k \in 1..Len(legal_moves) : legal_moves[k] = best_move.move

\* A search strategy was asked on a Board that is drawn with legal moves
\* left, and returned a move.
MoveOnDrawnBoard ==
    /\ best_move.call = "find_best_move"
    /\ best_move.strategy \in {"ai_minimax", "ai_alphabeta"}
    /\ game_state \in {INSUFFICIENT_MATERIAL, FIFTY_MOVE_RULE}
    /\ legal_moves # <<>>
    /\ best_move.move # NoMove

\* C18: for every Board, depth and player, alphabeta with the window
\* (-inf, inf) returns the score minimax returns.
AlphaBetaScoreIsMinimaxScore ==
    best_move.call = "search" =>
        best_move.alphabeta = best_move.minimax

\* Both searches were run to MaxDepth on a Board that is not over, and the
\* score is not the material on the Board.
SearchedToMaxDepth ==
    /\ best_move.call = "search"
    /\ best_move.depth = MaxDepth
    /\ game_state = ONGOING
    /\ best_move.minimax # MaterialScore(Self, 0, 63)
    /\ best_move.alphabeta = best_move.minimax

(***************************************************************************)
(* Board.copy as a state machine (SpecCopy)                                *)
(*                                                                         *)
(* The caller constructs a Board, plays on it along a script, calls copy() *)
(* once, and then plays and takes back moves on the original and on the    *)
(* copy in any order. new_board holds the reference copy() returned:       *)
(* object, the fields of the copy; shared, the containers it shares with   *)
(* the original; original, the original as it was when copy() was called;  *)
(* played, the moves played on the original until then; legal_moves, what  *)
(* get_legal_moves() last returned on the copy; past_start, whether        *)
(* unmake_move was called on the copy when its history was empty; kept,    *)
(* whether every call so far on one of the two Boards found the other      *)
(* Board, after the call, with every field as it was before the call.      *)
(***************************************************************************)
\* The most moves played on the copy, and the most moves the original is
\* played on or taken back from where it was copied.
MaxCopyPly == 2

\* copy() has not been called.
NoCopy == [copied |-> FALSE]

InitCopy ==
    /\ fen \in FenNames
    /\ \E constructed \in {NewBoard(FENS[fen])} : \E call \in {LegalMovesCall(constructed)} :
        /\ board = call.board.board
        /\ turn = call.board.turn
        /\ castling_rights = call.board.castling_rights
        /\ en_passant_target = call.board.en_passant_target
        /\ halfmove_clock = call.board.halfmove_clock
        /\ fullmove_number = call.board.fullmove_number
        /\ history = call.board.history
        /\ position_history = call.board.position_history
        /\ legal_moves = call.moves
        /\ game_state = get_game_state(call.board)
    /\ NoMore
    /\ new_board = NoCopy
    /\ gui = None
    /\ after_calls = <<>>
    /\ threads = <<>>
    /\ shown = <<>>
    /\ best_move = NoCall

\* The copy as it is after the original has become after.
CopySeenThrough(after) ==
    IF new_board.copied
    THEN The({[new_board EXCEPT !.object = seen,
                                !.kept = @ /\ seen = new_board.object] :
              seen \in {SeenThrough(new_board.object, after, new_board.shared)}})
    ELSE new_board

\* new_board = self.copy()
Copy ==
    /\ ~new_board.copied
    /\ \E b \in {Self} : \E copied \in {copy(b)} : \E call \in {LegalMovesCall(copied)} :
           new_board' = [copied |-> TRUE,
                         object |-> call.board,
                         shared |-> CopyShares,
                         original |-> b,
                         played |-> Played,
                         legal_moves |-> call.moves,
                         past_start |-> FALSE,
                         kept |-> TRUE]
    /\ UNCHANGED <<board_vars, gui, more_vars, after_calls, threads, shown, best_move>>

\* The copy has become after: the caller asks for its legal moves and
\* keeps the list; the original is as it is seen after that.
CopyObserved(after, past_start) ==
    \E call \in {LegalMovesCall(after)} :
    \E seen \in {SeenThrough(Self, call.board, new_board.shared)} :
        /\ new_board' = [new_board EXCEPT !.object = call.board,
                                          !.legal_moves = call.moves,
                                          !.past_start = past_start,
                                          !.kept = @ /\ seen = Self]
        /\ board' = seen.board
        /\ history' = seen.history
        /\ position_history' = seen.position_history
        /\ UNCHANGED <<turn, castling_rights, en_passant_target, halfmove_clock,
                       fullmove_number, fen, legal_moves, game_state>>

\* The moves played on the original and then on the copy.
CopyPlayed ==
    new_board.played \o [i \in 1..Len(new_board.object.history) |->
                             new_board.object.history[i].move]

\* The moves of the list moves that continue a script after the moves
\* played.
ScriptMoves(moves, played) ==
    {k \in 1..Len(moves) :
        \E line \in SCRIPTS[fen] :
            /\ IsPrefix(played, line)
            /\ Len(played) < Len(line)
            /\ MoveEq(moves[k], line[Len(played) + 1])}

\* new_board.make_move(move) with a move of the list of the copy, and the
\* caller's look at the copy.
CopyMakeMove ==
    /\ new_board.copied
    /\ Len(new_board.object.history) < MaxCopyPly
    /\ \E k \in ScriptMoves(new_board.legal_moves, CopyPlayed) :
       \E after \in {make_move(new_board.object, new_board.legal_moves[k])} :
           CopyObserved(after, new_board.past_start)
    /\ UNCHANGED <<gui, more_vars, after_calls, threads, shown, best_move>>

\* new_board.unmake_move(), and the caller's look at the copy.
CopyUnmakeMove ==
    /\ new_board.copied
    /\ \E after \in {unmake_move(new_board.object)} :
           CopyObserved(after, new_board.past_start \/ new_board.object.history = <<>>)
    /\ UNCHANGED <<gui, more_vars, after_calls, threads, shown, best_move>>

\* self.make_move(move) with a move of the caller's list, and the caller's
\* look at the original.
OriginalMakeMove ==
    /\ Len(history) < MaxPly
    /\ new_board.copied => Len(history) < Len(new_board.played) + MaxCopyPly
    /\ \E k \in ScriptMoves(legal_moves, Played) :
       \E after \in {make_move(Self, legal_moves[k])} :
           /\ Observe(after)
           /\ new_board' = CopySeenThrough(after)
    /\ UNCHANGED <<fen, gui, more_vars, after_calls, threads, shown, best_move>>

\* self.unmake_move(), and the caller's look at the original.
OriginalUnmakeMove ==
    /\ new_board.copied
    /\ Len(new_board.played) < Len(history) + MaxCopyPly
    /\ \E after \in {unmake_move(Self)} :
           /\ Observe(after)
           /\ new_board' = CopySeenThrough(after)
    /\ UNCHANGED <<fen, gui, more_vars, after_calls, threads, shown, best_move>>

NextCopy ==
    \/ Copy
    \/ CopyMakeMove
    \/ CopyUnmakeMove
    \/ OriginalMakeMove
    \/ OriginalUnmakeMove

SpecCopy == InitCopy /\ [][NextCopy]_vars

\* The fields of a Board but its history.
AllButHistory(b) ==
    <<b.board, b.turn, b.castling_rights, b.en_passant_target, b.halfmove_clock,
      b.fullmove_number, b.position_history>>

\* Whenever the history of the copy is empty (copy() has just returned, or
\* every move made on the copy was taken back, or unmake_move was called on
\* it once more), the copy has the placement, turn, castling rights,
\* en-passant target, clocks and repetition counts the original had when it
\* was copied.
CopyStartsAtOriginal ==
    new_board.copied /\ new_board.object.history = <<>> =>
        AllButHistory(new_board.object) = AllButHistory(new_board.original)

\* C19: copy() returns a Board with the fields of the original and an empty
\* history; make_move and unmake_move on the copy leave the original
\* unchanged, and on the original the copy; unmake_move on the copy does not
\* go back past the position of the copy.
CopyIsIndependent ==
    /\ CopyStartsAtOriginal
    /\ new_board.copied => new_board.kept

\* On the copy of a Board that had moves in its history, unmake_move was
\* called with nothing to take back and moves were made afterwards, while
\* the original was taken back behind the position of the copy.
CopyMovedOriginalTakenBack ==
    /\ new_board.copied
    /\ new_board.played # <<>>
    /\ new_board.past_start
    /\ Len(new_board.object.history) = MaxCopyPly
    /\ Len(history) < Len(new_board.played)

(***************************************************************************)
(* make_move and unmake_move with nothing to do (Spec)                     *)
(***************************************************************************)
\* The squares a piece of the side to move does not stand on.
NotMovable(b) ==
    {sq \in 0..63 : b.board[sq] = NoPiece \/ b.board[sq].color # b.turn}

\* The squares a move from from_sq is tried to: one rank up, one rank
\* down and one file aside, around the edges of the board.
TriedTargets(from_sq) ==
    {(from_sq + 8) % 64, (from_sq + 56) % 64, (from_sq + 1) % 64}

\* C20: make_move raises ValueError for every move from an empty square
\* and from a square of a piece of the side not to move, and the Board has
\* every field as before; unmake_move on an empty history leaves the Board
\* as it is.
InvalidCallsChangeNothing ==
    \E b \in {Self} :
        /\ \A from_sq \in NotMovable(b) : \A to_sq \in TriedTargets(from_sq) :
           \A promotion \in {None, QUEEN} : \A flags \in {NORMAL_MOVE, CAPTURE} :
               \E move \in {Move(from_sq, to_sq, promotion, flags)} :
                   /\ MakeMoveRaises(b, move)
                   /\ make_move(b, move) = b
        /\ b.history = <<>> => unmake_move(b) = b

\* Moves were played, an en-passant target is set, and a piece of the side
\* not to move as well as an empty square could be asked to move; the
\* history is not empty and the repetition table is filled.
InvalidCallAfterDoubleStep ==
    /\ en_passant_target # None
    /\ Len(history) >= 3
    /\ \E sq \in 0..63 : board[sq] = NoPiece
    /\ \E sq \in 0..63 : board[sq] # NoPiece /\ board[sq].color # turn

(***************************************************************************)
(* chess_logic.py: Board(fen) on any text (SpecFen)                        *)
(*                                                                         *)
(* The text is modelled after fen.split(' '): the sequence of its fields,  *)
(* each field the sequence of its characters (the turn field the one       *)
(* character it is compared with). called holds the text and how the       *)
(* constructor ended: raised is "pending" before _setup_from_fen runs,     *)
(* NoError when the Board was constructed, else the exception.             *)
(***************************************************************************)
NoError == "None"

\* int(text) raises ValueError unless the text is, between white space, an
\* optional sign and digits, with single underscores between digits.
RECURSIVE Stripped(_)
Stripped(text) ==
    IF text = <<>> THEN text
    ELSE IF text[1] = "\t" THEN Stripped(Tail(text))
    ELSE IF text[Len(text)] = "\t" THEN Stripped(SubSeq(text, 1, Len(text) - 1))
    ELSE text

Unsigned(text) == IF text # <<>> /\ text[1] \in {"+", "-"} THEN Tail(text) ELSE text

IntRaises(text) ==
    \E digits \in {Unsigned(Stripped(text))} :
        \/ digits = <<>>
        \/ ~InList(DIGITS, digits[1])
        \/ ~InList(DIGITS, digits[Len(digits)])
        \/ \E k \in 1..Len(digits) : ~InList(DIGITS, digits[k]) /\ digits[k] # "_"
        \/ \E k \in 1..(Len(digits) - 1) : digits[k] = "_" /\ digits[k + 1] = "_"

RECURSIVE DecimalValue(_, _)
DecimalValue(digits, value) ==
    IF digits = <<>> THEN value
    ELSE IF digits[1] = "_" THEN DecimalValue(Tail(digits), value)
    ELSE DecimalValue(Tail(digits), 10 * value + ListIndex(DIGITS, digits[1]))

\* int(text) where it returns.
int(text) ==
    The({IF stripped[1] = "-" THEN 0 - DecimalValue(Tail(stripped), 0)
         ELSE DecimalValue(Unsigned(stripped), 0) :
         stripped \in {Stripped(text)}})


\* The loop over the placement field ends with an exception: ValueError at
\* a character that is no '/', no digit and no piece letter, IndexError at
\* a piece put at an index the list does not have.
RECURSIVE PlacementRaises(_, _, _, _)
PlacementRaises(fen_board, i, rank, file) ==
    IF i > Len(fen_board) THEN NoError
    ELSE LET char == fen_board[i] IN
         IF char = "/" THEN PlacementRaises(fen_board, i + 1, rank - 1, 0)
         ELSE IF InList(DIGITS, char)
         THEN PlacementRaises(fen_board, i + 1, rank, file + ListIndex(DIGITS, char))
         ELSE IF ~InList(UPPER_PIECE_CHARS, char) /\ ~InList(LOWER_PIECE_CHARS, char)
         THEN "ValueError"
         ELSE IF rank * 8 + file > 63 \/ rank * 8 + file < -64 THEN "IndexError"
         ELSE PlacementRaises(fen_board, i + 1, rank, file + 1)


\* How _setup_from_fen ends on the fields parts.
SetupRaises(parts) ==
    IF Len(parts) # 6 THEN "ValueError"
    ELSE The({IF placement # NoError THEN placement
              ELSE IF parts[4] # <<"-">> /\ ~SquareNameOk(parts[4]) THEN "ValueError"
              ELSE IF IntRaises(parts[5]) THEN "ValueError"
              ELSE IF IntRaises(parts[6]) THEN "ValueError"
              ELSE NoError :
              placement \in {PlacementRaises(parts[1], 1, 7, 0)}})

\* The placement fields tried.
\* "4k3/8/8/8/8/8/8/4K3": Two kings.
PlainPlacement ==
    <<"4", "k", "3", "/", "8", "/", "8", "/", "8", "/", "8", "/", "8", "/", "8", "/", "4", "K", "3">>

\* "4k3/8/8/8/8/8/8/4K2x": A letter that is no piece letter.
UnknownLetterPlacement ==
    <<"4", "k", "3", "/", "8", "/", "8", "/", "8", "/", "8", "/", "8", "/", "8", "/", "4", "K", "2", "x">>

\* "4k3/8/8/8/8/8/8/4K3/P7": A ninth rank: its index -8 is the list position 56.
NineRanksPlacement ==
    <<"4", "k", "3", "/", "8", "/", "8", "/", "8", "/", "8", "/", "8", "/", "8", "/", "4", "K", "3", "/", "P", "7">>

\* "ppppppppp/8/8/8/8/8/8/4K3": Nine pieces on the first rank read: index 64.
NinePawnsPlacement ==
    <<"p", "p", "p", "p", "p", "p", "p", "p", "p", "/", "8", "/", "8", "/", "8", "/", "8", "/", "8", "/", "8", "/", "4", "K", "3">>

\* "pppppppppx/8/8/8/8/8/8/4K3": Nine pieces on the first rank read, then a letter that is no piece letter.
NinePawnsUnknownLetterPlacement ==
    <<"p", "p", "p", "p", "p", "p", "p", "p", "p", "x", "/", "8", "/", "8", "/", "8", "/", "8", "/", "8", "/", "8", "/", "4", "K", "3">>

FenPlacements ==
    {FENS.start[1], PlainPlacement, UnknownLetterPlacement, NineRanksPlacement,
     NinePawnsPlacement, NinePawnsUnknownLetterPlacement}

\* The en-passant fields tried.
FenEnPassants ==
    {<<"-">>, <<"e", "3">>, <<"E", "3">>, <<"e", "9">>, <<"i", "3">>, <<"e">>, <<"e", "3", "3">>}

\* The clock and move-number fields tried.
FenNumbers ==
    {<<"0">>, <<"1">>, <<"4", "2">>, <<"-", "1">>, <<"+", "3">>, <<"1", "_", "0">>,
     <<"x">>, <<"1", ".", "5">>, <<>>}

\* The texts tried: the fields of six-field texts, and texts of five and
\* of seven fields.
FenTexts ==
    {<<placement, "w", <<"-">>, en_passant, clock, number>> :
        placement \in FenPlacements, en_passant \in FenEnPassants,
        clock \in FenNumbers, number \in FenNumbers}
    \cup {<<placement, "w", <<"-">>, <<"-">>, clock>> :
        placement \in FenPlacements, clock \in FenNumbers}
    \cup {<<placement, "w", <<"-">>, <<"-">>, clock, <<"1">>, <<"x">>>> :
        placement \in FenPlacements, clock \in FenNumbers}

\* Board.__init__ before _setup_from_fen(fen): the fields have their
\* first values.
InitFen ==
    /\ fen = "text"
    /\ board = [sq \in 0..63 |-> NoPiece]
    /\ turn = WHITE
    /\ castling_rights = WHITE_KING_SIDE + WHITE_QUEEN_SIDE + BLACK_KING_SIDE + BLACK_QUEEN_SIDE
    /\ en_passant_target = None
    /\ halfmove_clock = 0
    /\ fullmove_number = 1
    /\ history = <<>>
    /\ position_history = <<>>
    /\ legal_moves = <<>>
    /\ game_state = None
    /\ new_board = None
    /\ gui = None
    /\ after_calls = <<>>
    /\ threads = <<>>
    /\ shown = <<>>
    /\ best_move = NoCall
    /\ chess_board = None
    /\ game = None
    /\ session = None
    /\ trainer = None
    /\ \E parts \in FenTexts : called = [call |-> "Board", fen |-> parts, raised |-> "pending"]

\* _setup_from_fen(fen) and _update_position_history(). When an exception
\* is raised the caller gets no Board; the fields are left as they were.
SetupFromFen ==
    /\ called.call = "Board"
    /\ called.raised = "pending"
    /\ \E raised \in {SetupRaises(called.fen)} :
        /\ called' = [called EXCEPT !.raised = raised]
        /\ IF raised # NoError
           THEN UNCHANGED <<board, turn, castling_rights, en_passant_target, halfmove_clock,
                            fullmove_number, history, position_history>>
           ELSE \E constructed \in {NewBoard([called.fen EXCEPT ![5] = int(@), ![6] = int(@)])} :
                /\ board' = constructed.board
                /\ turn' = constructed.turn
                /\ castling_rights' = constructed.castling_rights
                /\ en_passant_target' = constructed.en_passant_target
                /\ halfmove_clock' = constructed.halfmove_clock
                /\ fullmove_number' = constructed.fullmove_number
                /\ history' = constructed.history
                /\ position_history' = constructed.position_history
    /\ UNCHANGED <<fen, legal_moves, game_state, new_board, gui, after_calls, threads, shown,
                   best_move, chess_board, game, session, trainer>>

NextFen == SetupFromFen

SpecFen == InitFen /\ [][NextFen]_vars

\* The characters of a placement field that stand for something.
PlacementChars == {"/"} \cup {DIGITS[k] : k \in 1..10}
                        \cup {UPPER_PIECE_CHARS[k] : k \in 1..6}
                        \cup {LOWER_PIECE_CHARS[k] : k \in 1..6}

\* The text is read by int() as a number of at least least.
IsNumberFrom(text, least) == ~IntRaises(text) /\ int(text) >= least

\* The text is one of those Board(fen) is to refuse: not six fields, a
\* letter in the placement field that is no piece letter, an en-passant
\* field that is neither '-' nor the name of a square, a half-move clock
\* that is no non-negative integer, a full-move number that is no positive
\* integer.
Malformed(parts) ==
    \/ Len(parts) # 6
    \/ \E k \in 1..Len(parts[1]) : ~(parts[1][k] \in PlacementChars)
    \/ parts[4] # <<"-">> /\ ~SquareNameOk(parts[4])
    \/ ~IsNumberFrom(parts[5], 0)
    \/ ~IsNumberFrom(parts[6], 1)

\* C21: Board(fen) raises ValueError, and nothing else, for every text
\* that has not six fields, has a letter that is no piece letter in its
\* placement, or has a malformed en-passant field, half-move clock or
\* full-move number; no such text gives a Board.
MalformedFenRaisesValueError ==
    (called.call = "Board" /\ called.raised # "pending" /\ Malformed(called.fen))
        => called.raised = "ValueError"

\* For a text with a negative half-move clock and nothing else wrong
\* Board(fen) has ended.
NegativeClockTried ==
    /\ called.call = "Board"
    /\ called.raised # "pending"
    /\ Len(called.fen) = 6
    /\ called.fen[5] = <<"-", "1">>
    /\ called.fen[1] = PlainPlacement
    /\ called.fen[4] = <<"-">>
    /\ called.fen[6] = <<"1">>


(***************************************************************************)
(* constants.py: square_to_index and index_to_square called on any         *)
(* argument (SpecSquares)                                                  *)
(*                                                                         *)
(* called holds the function called, its argument, the exception raised    *)
(* ("pending" before the call, NoError when it returned), the value        *)
(* returned, and what the other function makes of that value (back).       *)
(***************************************************************************)
\* The indices tried reach MaxOutside beyond both ends of the board.
MaxOutside == 3

SquareIndices == (0 - MaxOutside)..(63 + MaxOutside)

\* The characters names are made of: file letters in both cases, a letter
\* after the last file, rank digits, digits that are no rank.
NameChars == {"a", "h", "E", "i", "1", "8", "9", "0"}

\* The longest name tried.
MaxName == 3

SquareNames ==
    UNION {[1..n -> NameChars] : n \in 0..MaxName}

InitSquares ==
    /\ fen = "none"
    /\ board = <<>>
    /\ turn = None
    /\ castling_rights = None
    /\ en_passant_target = None
    /\ halfmove_clock = None
    /\ fullmove_number = None
    /\ history = <<>>
    /\ position_history = <<>>
    /\ legal_moves = <<>>
    /\ game_state = None
    /\ new_board = None
    /\ gui = None
    /\ after_calls = <<>>
    /\ threads = <<>>
    /\ shown = <<>>
    /\ best_move = NoCall
    /\ chess_board = None
    /\ game = None
    /\ session = None
    /\ trainer = None
    /\ \/ \E index \in SquareIndices :
              called = [call |-> "index_to_square", index |-> index, raised |-> "pending"]
       \/ \E sq_name \in SquareNames :
              called = [call |-> "square_to_index", sq_name |-> sq_name, raised |-> "pending"]

\* index_to_square(index), and square_to_index of the name it returns.
IndexToSquare ==
    /\ called.call = "index_to_square"
    /\ called.raised = "pending"
    /\ called' =
           IF IndexRaises(called.index)
           THEN [called EXCEPT !.raised = "ValueError"]
           ELSE The({[call |-> called.call, index |-> called.index, raised |-> NoError,
                      value |-> sq_name,
                      back |-> IF SquareNameOk(sq_name) THEN square_to_index(sq_name)
                               ELSE None] :
                     sq_name \in {index_to_square(called.index)}})
    /\ UNCHANGED <<board_vars, new_board, gui, after_calls, threads, shown, best_move,
                   chess_board, game, session, trainer>>

\* square_to_index(sq_name), and index_to_square of the index it returns.
SquareToIndex ==
    /\ called.call = "square_to_index"
    /\ called.raised = "pending"
    /\ called' =
           IF ~SquareNameOk(called.sq_name)
           THEN [called EXCEPT !.raised = "ValueError"]
           ELSE The({[call |-> called.call, sq_name |-> called.sq_name, raised |-> NoError,
                      value |-> index,
                      back |-> IF IndexRaises(index) THEN <<>> ELSE index_to_square(index)] :
                     index \in {square_to_index(called.sq_name)}})
    /\ UNCHANGED <<board_vars, new_board, gui, after_calls, threads, shown, best_move,
                   chess_board, game, session, trainer>>

NextSquares == IndexToSquare \/ SquareToIndex

SpecSquares == InitSquares /\ [][NextSquares]_vars

\* The name is a file letter a-h followed by a rank digit 1-8.
LegalName(sq_name) ==
    /\ Len(sq_name) = 2
    /\ InList(FILES, sq_name[1])
    /\ InList(RANKS, sq_name[2])

\* An index of the board gives a name that gives the index back; an index
\* outside 0..63 raises ValueError.
IndexRoundTrips ==
    (called.call = "index_to_square" /\ called.raised # "pending") =>
        IF called.index \in 0..63
        THEN called.raised = NoError /\ LegalName(called.value) /\ called.back = called.index
        ELSE called.raised = "ValueError"

\* A legal name gives an index of the board that gives the name back.
NameRoundTrips ==
    (called.call = "square_to_index" /\ called.raised # "pending"
        /\ LegalName(called.sq_name)) =>
        /\ called.raised = NoError
        /\ called.value \in 0..63
        /\ called.back = called.sq_name

\* C22 as stated: both round trips hold, an index outside 0..63 raises,
\* and every name that is no file letter a-h followed by a rank digit 1-8
\* raises ValueError.
SquareNamingRoundTrips ==
    /\ IndexRoundTrips
    /\ NameRoundTrips
    /\ (called.call = "square_to_index" /\ called.raised # "pending"
           /\ ~LegalName(called.sq_name)) => called.raised = "ValueError"

\* C22, amended: both round trips hold and an index outside 0..63 raises;
\* a name raises ValueError unless it is two characters, a file letter in
\* either case and a rank digit, and a name with an upper-case file letter
\* gives the index of the name in lower case.
SquareNamingRoundTripsLowered ==
    /\ IndexRoundTrips
    /\ NameRoundTrips
    /\ (called.call = "square_to_index" /\ called.raised # "pending"
           /\ ~LegalName(called.sq_name)) =>
           IF Len(called.sq_name) = 2 /\ LegalName(<<lower(called.sq_name[1]), called.sq_name[2]>>)
           THEN /\ called.raised = NoError
                /\ called.back = <<lower(called.sq_name[1]), called.sq_name[2]>>
           ELSE called.raised = "ValueError"

\* The name "h8" gave the last index of the board and was given back.
LastSquareNamed ==
    /\ called.call = "square_to_index"
    /\ called.raised = NoError
    /\ called.sq_name = <<"h", "8">>
    /\ called.value = 63
    /\ called.back = <<"h", "8">>


(***************************************************************************)
(* chess_logic.py: Move.uci (Spec)                                         *)
(***************************************************************************)
\* The letter by which UCI names a promotion piece.
UCI_PROMOTION_LETTERS == (QUEEN :> "q") @@ (ROOK :> "r") @@ (BISHOP :> "b") @@ (KNIGHT :> "n")

\* C23: for every move get_legal_moves returns, uci() is the name of the
\* origin square, the name of the destination square and, for a promotion,
\* the one letter q, r, b or n of the promotion piece, and nothing more.
UciNamesPromotionPiece ==
    \A k \in 1..Len(legal_moves) : \E move \in {legal_moves[k]} :
        /\ ~UciRaises(move)
        /\ uci(move) = index_to_square(move.from_sq) \o index_to_square(move.to_sq)
                           \o (IF move.promotion = None THEN <<>>
                               ELSE <<UCI_PROMOTION_LETTERS[move.promotion]>>)


(***************************************************************************)
(* chess_gui.py: the notation in the move history (SpecGui)                *)
(***************************************************************************)
\* The approximate SAN of a move of the piece piece: the letter of the
\* piece (none for a pawn), the origin file of a capturing pawn, x for a
\* capture, the destination square, = and the letter of the promotion
\* piece; O-O and O-O-O for castling. The letters are the first letters of
\* PIECE_NAMES.
ApproximateSan(piece, move) ==
    LET captures == move.flags \in {CAPTURE, EN_PASSANT}
        dest_sq == index_to_square(move.to_sq)
    IN  IF move.flags = CASTLING
        THEN IF get_file(move.to_sq) = 6 THEN <<"O", "-", "O">>
             ELSE <<"O", "-", "O", "-", "O">>
        ELSE (IF piece.type = PAWN THEN <<>> ELSE <<PIECE_NAMES[piece.type][1]>>)
             \o (IF piece.type = PAWN /\ captures
                 THEN <<FILES[get_file(move.from_sq) + 1]>> ELSE <<>>)
             \o (IF captures THEN <<"x">> ELSE <<>>)
             \o dest_sq
             \o (IF move.promotion = None THEN <<>>
                 ELSE <<"=", PIECE_NAMES[move.promotion][1]>>)

\* C24: the notation put into the move history for every move made by
\* perform_move is the approximate SAN of the move.
HistoryShowsSan ==
    \A k \in 1..Len(gui.move_history_text) :
        gui.move_history_text[k].text.notation =
            ApproximateSan(gui.move_history_text[k].text.piece, gui.move_history_text[k].move)


(***************************************************************************)
(* chess_game && ui/pieces.py, board.py: the second rules engine.  A cell  *)
(* is <<row, col>>, row 0 being Black's back rank; a piece is a tag        *)
(* <<colour letter, type letter>>, and the empty tuple is Python's None.   *)
(* A list of destinations is modelled by the set of its elements: the code *)
(* only tests membership and emptiness, and draws one element at random.   *)
(***************************************************************************)
Cells == (0..7) \X (0..7)

NoTag == <<>>
NoCell == <<>>

BACK_ROW == <<"R", "N", "B", "Q", "K", "B", "N", "R">>

\* ChessBoard.__init__
ChessBoard ==
    [board |-> [pos \in Cells |->
                   CASE pos[1] = 0 -> <<"b", BACK_ROW[pos[2] + 1]>>
                     [] pos[1] = 1 -> <<"b", "P">>
                     [] pos[1] = 6 -> <<"w", "P">>
                     [] pos[1] = 7 -> <<"w", BACK_ROW[pos[2] + 1]>>
                     [] OTHER -> NoTag],
     current_turn |-> "white",
     move_log |-> <<>>,
     white_king_pos |-> <<7, 4>>,
     black_king_pos |-> <<0, 4>>,
     castling_rights |->
         [white |-> [king_moved |-> FALSE, left_rook_moved |-> FALSE,
                     right_rook_moved |-> FALSE],
          black |-> [king_moved |-> FALSE, left_rook_moved |-> FALSE,
                     right_rook_moved |-> FALSE]],
     en_passant_target |-> NoCell]

\* color[0]
Letter(color) == IF color = "white" THEN "w" ELSE "b"

OtherColor(color) == IF color = "white" THEN "black" ELSE "white"

\* ChessBoard.get_piece_at
get_piece_at(cb, position) ==
    IF position \in Cells THEN cb.board[position] ELSE NoTag

\* "not target or target[0] != self.color[0]"
FreeOrEnemy(cb, color, position) ==
    \/ get_piece_at(cb, position) = NoTag
    \/ get_piece_at(cb, position)[1] # Letter(color)

\* Pawn.get_valid_moves
Pawn(cb, color, position) ==
    LET row == position[1]
        col == position[2]
        direction == IF color = "black" THEN 1 ELSE -1
        forward ==
            IF get_piece_at(cb, <<row + direction, col>>) # NoTag THEN {}
            ELSE {<<row + direction, col>>}
                 \cup (IF /\ \/ color = "white" /\ row = 6
                             \/ color = "black" /\ row = 1
                          /\ get_piece_at(cb, <<row + 2 * direction, col>>) = NoTag
                       THEN {<<row + 2 * direction, col>>}
                       ELSE {})
        taking ==
            {new \in {<<row + direction, col + dc>> : dc \in {-1, 1}} :
                \/ /\ new \in Cells
                   /\ get_piece_at(cb, new) # NoTag
                   /\ get_piece_at(cb, new)[1] # Letter(color)
                \/ new = cb.en_passant_target}
    IN  forward \cup taking

\* The inner loop of Rook.get_valid_moves and Bishop.get_valid_moves: the
\* cells reached from the position in one direction.
Ray(cb, color, position, d) ==
    LET at(step) == <<position[1] + d[1] * step, position[2] + d[2] * step>>
    IN  {at(step) : step \in {s \in 1..7 :
            /\ at(s) \in Cells
            /\ \A before \in 1..(s - 1) : get_piece_at(cb, at(before)) = NoTag
            /\ FreeOrEnemy(cb, color, at(s))}}

\* Rook.get_valid_moves
Rook(cb, color, position) ==
    UNION {Ray(cb, color, position, d) : d \in {<<-1, 0>>, <<1, 0>>, <<0, -1>>, <<0, 1>>}}

\* Knight.get_valid_moves
Knight(cb, color, position) ==
    {new \in {<<position[1] + d[1], position[2] + d[2]>> :
                 d \in {<<-2, -1>>, <<-2, 1>>, <<-1, -2>>, <<-1, 2>>,
                        <<1, -2>>, <<1, 2>>, <<2, -1>>, <<2, 1>>}} :
        new \in Cells /\ FreeOrEnemy(cb, color, new)}

\* Bishop.get_valid_moves
Bishop(cb, color, position) ==
    UNION {Ray(cb, color, position, d) : d \in {<<-1, -1>>, <<-1, 1>>, <<1, -1>>, <<1, 1>>}}

\* Queen.get_valid_moves
Queen(cb, color, position) ==
    Rook(cb, color, position) \cup Bishop(cb, color, position)

\* The first loop of King.get_valid_moves: the adjacent cells.
KingSteps(cb, color, position) ==
    {new \in {<<position[1] + dr, position[2] + dc>> : dr \in -1..1, dc \in -1..1} :
        new # position /\ new \in Cells /\ FreeOrEnemy(cb, color, new)}

\* A variant of the castling part of King.get_valid_moves that does not look
\* at the rooks' flags.
CastlingWhateverTheRooks(cb, color, position) ==
    IF cb.castling_rights[color].king_moved THEN {}
    ELSE (IF \A c \in {5, 6} : get_piece_at(cb, <<position[1], c>>) = NoTag
          THEN {<<position[1], 6>>} ELSE {})
         \cup (IF \A c \in {1, 2, 3} : get_piece_at(cb, <<position[1], c>>) = NoTag
               THEN {<<position[1], 2>>} ELSE {})

\* The second part of King.get_valid_moves: the castling destinations.
Castling(cb, color, position) ==
    IF cb.castling_rights[color].king_moved THEN {}
    ELSE (IF /\ ~cb.castling_rights[color].right_rook_moved
             /\ \A c \in {5, 6} : get_piece_at(cb, <<position[1], c>>) = NoTag
          THEN {<<position[1], 6>>} ELSE {})
         \cup (IF /\ ~cb.castling_rights[color].left_rook_moved
                  /\ \A c \in {1, 2, 3} : get_piece_at(cb, <<position[1], c>>) = NoTag
               THEN {<<position[1], 2>>} ELSE {})

\* King.get_valid_moves
King(cb, color, position) ==
    KingSteps(cb, color, position) \cup Castling(cb, color, position)

\* create_piece(color, piece_type, position).get_valid_moves(board)
get_valid_moves(cb, color, piece_type, position) ==
    CASE piece_type = "P" -> Pawn(cb, color, position)
      [] piece_type = "R" -> Rook(cb, color, position)
      [] piece_type = "N" -> Knight(cb, color, position)
      [] piece_type = "B" -> Bishop(cb, color, position)
      [] piece_type = "Q" -> Queen(cb, color, position)
      [] piece_type = "K" -> King(cb, color, position)

\* The cells that hold a piece of the colour.
PiecesOf(cb, color) ==
    {pos \in Cells : cb.board[pos] # NoTag /\ cb.board[pos][1] = Letter(color)}

\* The loops "for every piece of the colour, for every candidate destination".
Candidates(cb, color) ==
    UNION {{<<pos, move>> : move \in get_valid_moves(cb, color, cb.board[pos][2], pos)} :
           pos \in PiecesOf(cb, color)}

\* The position the board tracks for the king of the colour.
TrackedKing(cb, color) ==
    IF color = "white" THEN cb.white_king_pos ELSE cb.black_king_pos

\* ChessBoard.is_square_under_attack
is_square_under_attack(cb, pos, color) ==
    \E from \in PiecesOf(cb, OtherColor(color)) :
        pos \in get_valid_moves(cb, OtherColor(color), cb.board[from][2], from)

\* ChessBoard.is_in_check
ChessBoard_is_in_check(cb, color) ==
    is_square_under_attack(cb, TrackedKing(cb, color), color)

\* The two assignments that try the move out on the live grid.
Tried(cb, start_pos, end_pos) ==
    [cb EXCEPT !.board = [@ EXCEPT ![end_pos] = cb.board[start_pos],
                                   ![start_pos] = NoTag]]

\* ChessBoard.is_valid_move: the value it returns and the object it leaves.
\* The king's destination that the code computes is not read again.
is_valid_move_call(cb, start_pos, end_pos) ==
    LET piece == cb.board[start_pos]
    IN  IF piece = NoTag \/ piece[1] # Letter(cb.current_turn)
        THEN [value |-> FALSE, self |-> cb]
        ELSE IF end_pos \notin Cells
        THEN [value |-> FALSE, self |-> cb]
        ELSE IF cb.board[end_pos] # NoTag /\ cb.board[end_pos][1] = piece[1]
        THEN [value |-> FALSE, self |-> cb]
        ELSE LET original_piece == cb.board[end_pos]
                 tried == Tried(cb, start_pos, end_pos)
             IN  [value |-> ~ChessBoard_is_in_check(tried, cb.current_turn),
                  self |-> [tried EXCEPT !.board = [@ EXCEPT ![start_pos] = piece,
                                                             ![end_pos] = original_piece]]]

is_valid_move(cb, start_pos, end_pos) == is_valid_move_call(cb, start_pos, end_pos).value

\* ChessBoard.will_be_in_check_after_move
will_be_in_check_after_move(cb, start_pos, end_pos) ==
    LET piece == cb.board[start_pos]
        tried == Tried(cb, start_pos, end_pos)
        moved == IF piece = <<"w", "K">> THEN [tried EXCEPT !.white_king_pos = end_pos]
                 ELSE IF piece = <<"b", "K">> THEN [tried EXCEPT !.black_king_pos = end_pos]
                 ELSE tried
    IN  ChessBoard_is_in_check(moved, IF piece[1] = "w" THEN "white" ELSE "black")

\* The candidate moves of the side to move that pass is_valid_move.
ValidMoves(cb) ==
    {m \in Candidates(cb, cb.current_turn) : is_valid_move(cb, m[1], m[2])}

\* ChessBoard.is_checkmate
ChessBoard_is_checkmate(cb) ==
    /\ ChessBoard_is_in_check(cb, cb.current_turn)
    /\ ValidMoves(cb) = {}

\* ChessBoard.is_stalemate
ChessBoard_is_stalemate(cb) ==
    /\ ~ChessBoard_is_in_check(cb, cb.current_turn)
    /\ \A pos \in PiecesOf(cb, cb.current_turn) :
           get_valid_moves(cb, cb.current_turn, cb.board[pos][2], pos) = {}

\* A variant of is_stalemate that asks every candidate destination to fail
\* is_valid_move.
is_stalemate_by_legality(cb) ==
    /\ ~ChessBoard_is_in_check(cb, cb.current_turn)
    /\ ValidMoves(cb) = {}

\* ChessBoard.move_piece
move_piece(cb, start_pos, end_pos) ==
    LET piece == cb.board[start_pos]
        start_row == start_pos[1]
        start_col == start_pos[2]
        end_row == end_pos[1]
        end_col == end_pos[2]
        Abs(n) == IF n < 0 THEN -n ELSE n
        castled ==
            IF piece[2] = "K" /\ Abs(end_col - start_col) = 2
            THEN IF end_col = 6
                 THEN [cb.board EXCEPT ![<<start_row, 5>>] = cb.board[<<start_row, 7>>],
                                       ![<<start_row, 7>>] = NoTag]
                 ELSE IF end_col = 2
                 THEN [cb.board EXCEPT ![<<start_row, 3>>] = cb.board[<<start_row, 0>>],
                                       ![<<start_row, 0>>] = NoTag]
                 ELSE cb.board
            ELSE cb.board
        taken ==
            IF piece[2] = "P" /\ end_pos = cb.en_passant_target
            THEN [castled EXCEPT ![<<start_row, end_col>>] = NoTag]
            ELSE castled
        target ==
            IF piece[2] = "P" /\ Abs(start_row - end_row) = 2
            THEN <<start_row + (end_row - start_row) \div 2, start_col>>
            ELSE NoCell
        moved == [taken EXCEPT ![end_pos] = piece, ![start_pos] = NoTag]
        color == IF piece[1] = "w" THEN "white" ELSE "black"
        rights == cb.castling_rights[color]
        flagged ==
            IF piece[2] = "K" THEN [rights EXCEPT !.king_moved = TRUE]
            ELSE IF piece[2] = "R" /\ start_pos = <<(IF color = "white" THEN 7 ELSE 0), 0>>
            THEN [rights EXCEPT !.left_rook_moved = TRUE]
            ELSE IF piece[2] = "R" /\ start_pos = <<(IF color = "white" THEN 7 ELSE 0), 7>>
            THEN [rights EXCEPT !.right_rook_moved = TRUE]
            ELSE rights
    IN  [board |-> IF piece[2] = "P" /\ end_row \in {0, 7}
                   THEN [moved EXCEPT ![end_pos] = <<piece[1], "Q">>]
                   ELSE moved,
         current_turn |-> OtherColor(cb.current_turn),
         move_log |-> Append(cb.move_log, <<start_pos, end_pos>>),
         white_king_pos |-> IF piece = <<"w", "K">> THEN end_pos ELSE cb.white_king_pos,
         black_king_pos |-> IF piece = <<"b", "K">> THEN end_pos ELSE cb.black_king_pos,
         castling_rights |-> [cb.castling_rights EXCEPT ![color] = flagged],
         en_passant_target |-> target]


(***************************************************************************)
(* chess_game && ui/ai.py, config.py, main.py: the random engine and the   *)
(* game loop.  One step of the model is one pass of the loop of main()     *)
(* that handles at most one event.                                         *)
(***************************************************************************)
WIDTH == 800
SQUARE_SIZE == WIDTH \div 8
MENU_OPTIONS == <<"New Game (White)", "New Game (Black)", "Restart", "Quit">>

NoResult == "None"

\* possible_moves of get_best_move: the candidate moves of Black's pieces that
\* pass is_valid_move.
possible_moves(cb) ==
    {m \in Candidates(cb, "black") : is_valid_move(cb, m[1], m[2])}

\* The games that the user and the random choice of the engine are followed
\* through: each is a list of moves <<start, end>> from the first position.
Cell(name) == <<8 - (ListIndex(RANKS, name[2]) + 1), ListIndex(FILES, name[1])>>

GameOf(names) == [i \in 1..Len(names) |-> <<Cell(names[i][1]), Cell(names[i][2])>>]

\* The king walks in front of the queen.
KingWalk ==
    GameOf(<< <<<<"e", "2">>, <<"e", "4">>>>, <<<<"e", "7">>, <<"e", "5">>>>,
              <<<<"e", "1">>, <<"e", "2">>>>, <<<<"d", "8">>, <<"f", "6">>>>,
              <<<<"e", "2">>, <<"f", "3">>>>, <<<<"f", "6">>, <<"f", "3">>>> >>)

\* The queen's rook leaves its corner and returns to it, the squares between
\* it and the king being empty.
RookReturns ==
    GameOf(<< <<<<"b", "1">>, <<"c", "3">>>>, <<<<"g", "8">>, <<"f", "6">>>>,
              <<<<"d", "2">>, <<"d", "4">>>>, <<<<"f", "6">>, <<"g", "8">>>>,
              <<<<"c", "1">>, <<"f", "4">>>>, <<<<"g", "8">>, <<"f", "6">>>>,
              <<<<"d", "1">>, <<"d", "3">>>>, <<<<"f", "6">>, <<"g", "8">>>>,
              <<<<"a", "1">>, <<"b", "1">>>>, <<<<"g", "8">>, <<"f", "6">>>>,
              <<<<"b", "1">>, <<"a", "1">>>>, <<<<"f", "6">>, <<"g", "8">>>> >>)

\* White castles on the king's side, then Black does.
BothCastle ==
    GameOf(<< <<<<"g", "1">>, <<"f", "3">>>>, <<<<"g", "8">>, <<"f", "6">>>>,
              <<<<"e", "2">>, <<"e", "3">>>>, <<<<"e", "7">>, <<"e", "6">>>>,
              <<<<"f", "1">>, <<"e", "2">>>>, <<<<"f", "8">>, <<"e", "7">>>>,
              <<<<"e", "1">>, <<"g", "1">>>>, <<<<"e", "8">>, <<"g", "8">>>> >>)

\* Black takes White's pieces and then its king on g6, and White is left with
\* two pawns: the c-pawn is blocked, and the h-pawn can only take on g6.
KingTaken ==
    GameOf(<< <<<<"h", "2">>, <<"h", "3">>>>, <<<<"c", "7">>, <<"c", "6">>>>,
              <<<<"f", "2">>, <<"f", "3">>>>, <<<<"d", "8">>, <<"a", "5">>>>,
              <<<<"b", "1">>, <<"a", "3">>>>, <<<<"a", "5">>, <<"a", "3">>>>,
              <<<<"e", "1">>, <<"f", "2">>>>, <<<<"a", "3">>, <<"a", "2">>>>,
              <<<<"f", "2">>, <<"g", "3">>>>, <<<<"a", "2">>, <<"a", "1">>>>,
              <<<<"g", "3">>, <<"h", "4">>>>, <<<<"a", "1">>, <<"b", "2">>>>,
              <<<<"h", "4">>, <<"g", "5">>>>, <<<<"b", "2">>, <<"c", "1">>>>,
              <<<<"c", "2">>, <<"c", "4">>>>, <<<<"c", "1">>, <<"d", "1">>>>,
              <<<<"d", "2">>, <<"d", "3">>>>, <<<<"d", "1">>, <<"d", "3">>>>,
              <<<<"c", "4">>, <<"c", "5">>>>, <<<<"d", "3">>, <<"e", "2">>>>,
              <<<<"g", "2">>, <<"g", "4">>>>, <<<<"e", "2">>, <<"f", "1">>>>,
              <<<<"f", "3">>, <<"f", "4">>>>, <<<<"f", "1">>, <<"g", "1">>>>,
              <<<<"f", "4">>, <<"f", "5">>>>, <<<<"g", "1">>, <<"h", "1">>>>,
              <<<<"f", "5">>, <<"f", "6">>>>, <<<<"g", "8">>, <<"f", "6">>>>,
              <<<<"h", "3">>, <<"h", "4">>>>, <<<<"f", "6">>, <<"g", "4">>>>,
              <<<<"g", "5">>, <<"g", "6">>>>, <<<<"f", "7">>, <<"g", "6">>>>,
              <<<<"h", "4">>, <<"h", "5">>>>, <<<<"g", "4">>, <<"h", "6">>>> >>)

Games == {KingWalk, RookReturns, BothCastle, KingTaken}

\* The moves that continue the move log in one of the games.
Continuations(move_log) ==
    {g[Len(move_log) + 1] :
        g \in {g \in Games : /\ Len(g) > Len(move_log)
                             /\ SubSeq(g, 1, Len(move_log)) = move_log}}

\* The outcomes of random.choice(possible_moves) that are followed: the moves
\* that continue a game, or one element of the list when none does.
Draws(cb, moves) ==
    IF moves \cap Continuations(cb.move_log) # {}
    THEN moves \cap Continuations(cb.move_log)
    ELSE {CHOOSE m \in moves : TRUE}

\* The cells the user clicks on: the ends of the moves that continue a game,
\* and a cell in the middle of the board.
ELSEWHERE == <<3, 0>>

Clicks(cb) ==
    {ELSEWHERE} \cup UNION {{m[1], m[2]} : m \in Continuations(cb.move_log)}

\* The points of the menu the mouse moves to: the top of each option, the
\* bottom of the last one, and a point outside the options.
MenuPoints ==
    {<<WIDTH \div 2, 200 + 60 * i>> : i \in 0..Len(MENU_OPTIONS)} \cup {<<0, 0>>}

\* main(): the locals before the loop, and the ChessBoard it constructs.
GameLocals ==
    [pc |-> "loop",
     selected_piece |-> NoCell,
     valid_moves |-> {},
     game_state |-> "menu",
     selected_menu_option |-> 0,
     hover_menu_option |-> None,
     result |-> NoResult,
     player_color |-> "white"]

InitGame ==
    /\ fen = "none"
    /\ board = <<>>
    /\ turn = None
    /\ castling_rights = None
    /\ en_passant_target = None
    /\ halfmove_clock = None
    /\ fullmove_number = None
    /\ history = <<>>
    /\ position_history = <<>>
    /\ legal_moves = <<>>
    /\ game_state = None
    /\ new_board = None
    /\ gui = None
    /\ after_calls = <<>>
    /\ threads = <<>>
    /\ shown = <<>>
    /\ best_move = NoCall
    /\ chess_board = ChessBoard
    /\ game = GameLocals
    /\ session = None
    /\ trainer = None
    /\ called = NoCall

\* The tests that follow a move in main(): checkmate, else stalemate.
CheckedForEnd(cb, g) ==
    IF ChessBoard_is_checkmate(cb)
    THEN [g EXCEPT !.game_state = "menu",
                   !.result = IF cb.current_turn = "black"
                              THEN "Checkmate! White wins!"
                              ELSE "Checkmate! Black wins!"]
    ELSE IF ChessBoard_is_stalemate(cb)
    THEN [g EXCEPT !.game_state = "menu", !.result = "Stalemate!"]
    ELSE g

\* The activation of a menu option, common to the keyboard and the mouse.
Activated(cb, g) ==
    IF g.selected_menu_option \in {0, 1}
    THEN [cb |-> ChessBoard,
          g |-> [g EXCEPT !.selected_piece = NoCell, !.valid_moves = {},
                          !.game_state = "playing", !.result = NoResult,
                          !.player_color = IF g.selected_menu_option = 0 THEN "white"
                                           ELSE "black"]]
    ELSE IF g.selected_menu_option = 2
    THEN [cb |-> ChessBoard,
          g |-> [g EXCEPT !.selected_piece = NoCell, !.valid_moves = {},
                          !.game_state = "playing", !.result = NoResult]]
    ELSE IF g.selected_menu_option = 3
    THEN [cb |-> cb, g |-> [g EXCEPT !.pc = "returned"]]
    ELSE [cb |-> cb, g |-> g]

\* The rest of the frame of every action of the game loop.
GameFrame ==
    UNCHANGED <<board_vars, new_board, gui, after_calls, threads, shown, best_move,
                session, trainer, called>>

InMenu == game.pc = "loop" /\ game.game_state = "menu"

InPlay == game.pc = "loop" /\ game.game_state = "playing"

\* pygame.QUIT in either state.
Quit ==
    /\ game.pc = "loop"
    /\ game' = [game EXCEPT !.pc = "returned"]
    /\ UNCHANGED chess_board
    /\ GameFrame

\* Menu: K_UP.
MenuKeyUp ==
    /\ InMenu
    /\ game' = [game EXCEPT !.selected_menu_option = (@ - 1) % Len(MENU_OPTIONS)]
    /\ UNCHANGED chess_board
    /\ GameFrame

\* Menu: K_DOWN.
MenuKeyDown ==
    /\ InMenu
    /\ game' = [game EXCEPT !.selected_menu_option = (@ + 1) % Len(MENU_OPTIONS)]
    /\ UNCHANGED chess_board
    /\ GameFrame

\* Menu: K_RETURN.  "New Game (Black)" asks the engine for a move at once.
MenuKeyReturn ==
    /\ InMenu
    /\ \E now \in {Activated(chess_board, game)} :
          IF game.selected_menu_option = 1
          THEN \E moves \in {possible_moves(now.cb)} :
                  /\ game' = now.g
                  /\ IF moves = {} THEN chess_board' = now.cb
                     ELSE \E move \in Draws(now.cb, moves) :
                             chess_board' = move_piece(now.cb, move[1], move[2])
          ELSE /\ game' = now.g
               /\ chess_board' = now.cb
    /\ GameFrame

\* Menu: MOUSEMOTION.
MenuMouseMotion ==
    /\ InMenu
    /\ \E point \in MenuPoints :
          LET x == point[1]
              y == point[2]
          IN  game' = [game EXCEPT !.hover_menu_option =
                          IF /\ 200 <= y /\ y <= 200 + Len(MENU_OPTIONS) * 60
                             /\ WIDTH \div 2 - 120 <= x /\ x <= WIDTH \div 2 + 100
                          THEN (y - 200) \div 60
                          ELSE None]
    /\ UNCHANGED chess_board
    /\ GameFrame

\* Menu: MOUSEBUTTONDOWN.
MenuMouseButtonDown ==
    /\ InMenu
    /\ IF game.hover_menu_option = None
       THEN UNCHANGED <<chess_board, game>>
       ELSE \E now \in {Activated(chess_board,
                                  [game EXCEPT !.selected_menu_option =
                                                   game.hover_menu_option])} :
               /\ game' = now.g
               /\ chess_board' = now.cb
    /\ GameFrame

\* Playing: MOUSEBUTTONDOWN on a cell, up to the end of the event loop.
Clicked(cb, g, cell) ==
    IF cb.current_turn # g.player_color THEN [cb |-> cb, g |-> g]
    ELSE IF g.selected_piece = NoCell
    THEN IF get_piece_at(cb, cell) # NoTag
            /\ get_piece_at(cb, cell)[1] = Letter(g.player_color)
         THEN LET moves == {move \in get_valid_moves(cb, g.player_color,
                                                     cb.board[cell][2], cell) :
                                is_valid_move(cb, cell, move)}
              IN  [cb |-> cb,
                   g |-> [g EXCEPT !.selected_piece = cell,
                                   !.valid_moves =
                                       IF ChessBoard_is_in_check(cb, g.player_color)
                                       THEN {move \in moves :
                                               ~will_be_in_check_after_move(cb, cell, move)}
                                       ELSE moves]]
         ELSE [cb |-> cb, g |-> g]
    ELSE IF cell \in g.valid_moves
    THEN The({[cb |-> made,
               g |-> CheckedForEnd(made, [g EXCEPT !.selected_piece = NoCell,
                                               !.valid_moves = {}])] :
              made \in {move_piece(cb, g.selected_piece, cell)}})
    ELSE [cb |-> cb, g |-> [g EXCEPT !.selected_piece = NoCell, !.valid_moves = {}]]

\* Playing: what follows the event loop in the same pass, the engine's move
\* when it is not the user's turn.
EngineMoves(cb, g) ==
    /\ \E moves \in {IF cb.current_turn # g.player_color THEN possible_moves(cb) ELSE {}} :
          IF moves = {}
          THEN chess_board' = cb /\ game' = g
          ELSE \E move \in Draws(cb, moves) :
                  \E made \in {move_piece(cb, move[1], move[2])} :
                     /\ chess_board' = made
                     /\ game' = CheckedForEnd(made, g)
    /\ GameFrame

\* Playing: a pass of the loop with a click in the middle of a cell.
PlayingMouseButtonDown ==
    /\ InPlay
    /\ \E cell \in Clicks(chess_board) :
          \E x \in {cell[2] * SQUARE_SIZE + SQUARE_SIZE \div 2},
             y \in {cell[1] * SQUARE_SIZE + SQUARE_SIZE \div 2} :
             \E now \in {Clicked(chess_board, game,
                                  <<y \div SQUARE_SIZE, x \div SQUARE_SIZE>>)} :
                EngineMoves(now.cb, now.g)

\* Playing: a pass of the loop with no event.
PlayingTick ==
    /\ InPlay
    /\ EngineMoves(chess_board, game)

NextGame ==
    \/ Quit
    \/ MenuKeyUp
    \/ MenuKeyDown
    \/ MenuKeyReturn
    \/ MenuMouseMotion
    \/ MenuMouseButtonDown
    \/ PlayingMouseButtonDown
    \/ PlayingTick

SpecGame == InitGame /\ [][NextGame]_vars

\* The loop keeps running: clock.tick(60) returns and the pass is made.
SpecGameLive == SpecGame /\ WF_vars(PlayingTick)


(***************************************************************************)
(* ChessBoard.is_valid_move against its description.                       *)
(***************************************************************************)
\* The destinations is_valid_move is asked about from a cell: the candidate
\* destinations of the piece on it, a cell in the middle of the board and a
\* cell off the board.
AskedAbout(cb, start_pos) ==
    {ELSEWHERE, <<8, 0>>}
    \cup (IF cb.board[start_pos] = NoTag THEN {}
          ELSE get_valid_moves(cb, IF cb.board[start_pos][1] = "w" THEN "white" ELSE "black",
                               cb.board[start_pos][2], start_pos))

\* After the move is tried on the grid, the king of the side to move is
\* attacked on the cell it stands on: the destination when the king moves.
KingAttackedAfter(cb, start_pos, end_pos) ==
    is_square_under_attack(Tried(cb, start_pos, end_pos),
                           IF cb.board[start_pos][2] = "K" THEN end_pos
                           ELSE TrackedKing(cb, cb.current_turn),
                           cb.current_turn)

DescribedAsValid(cb, start_pos, end_pos) ==
    /\ cb.board[start_pos] # NoTag
    /\ cb.board[start_pos][1] = Letter(cb.current_turn)
    /\ end_pos \in Cells
    /\ ~(cb.board[end_pos] # NoTag /\ cb.board[end_pos][1] = cb.board[start_pos][1])
    /\ ~KingAttackedAfter(cb, start_pos, end_pos)

\* C25: is_valid_move(start, end) is true exactly when start holds a piece of
\* the side to move, end is on the board and holds no piece of that colour,
\* and the king of the side to move is not attacked once the move is tried,
\* the king being judged on its destination when it is the king that moves;
\* and the call leaves the ChessBoard as it found it.
IsValidMoveJudgesTheKingWhereItGoes ==
    \A start_pos \in Cells :
        \A end_pos \in AskedAbout(chess_board, start_pos) :
            \E returned \in {is_valid_move_call(chess_board, start_pos, end_pos)} :
                /\ returned.value = DescribedAsValid(chess_board, start_pos, end_pos)
                /\ returned.self = chess_board


(***************************************************************************)
(* The castling flags of the ChessBoard.                                   *)
(***************************************************************************)
Colors == {"white", "black"}

\* The home corner of the rook of the colour on the side: column 0 is the
\* left one, column 7 the right one.
HomeCorner(color, side) ==
    <<(IF color = "white" THEN 7 ELSE 0), (IF side = "left_rook_moved" THEN 0 ELSE 7)>>

\* The king moves of two columns, which move_piece completes as castling, are
\* offered to no king whose flags forbid them.
NoCastlingAgainstTheFlags(cb) ==
    \A color \in Colors :
        \A pos \in {p \in PiecesOf(cb, color) : cb.board[p][2] = "K"} :
            \A move \in King(cb, color, pos) :
                (move[1] = pos[1] /\ move[2] - pos[2] \in {-2, 2}) =>
                    /\ ~cb.castling_rights[color].king_moved
                    /\ move[2] = 2 => ~cb.castling_rights[color].left_rook_moved
                    /\ move[2] = 6 => ~cb.castling_rights[color].right_rook_moved

\* The step is a move of the game in progress.
MoveOfTheGame ==
    /\ Len(chess_board'.move_log) = Len(chess_board.move_log) + 1
    /\ SubSeq(chess_board'.move_log, 1, Len(chess_board.move_log)) = chess_board.move_log

\* A flag that is set stays set, and the move of a rook off its home corner,
\* or of a king, sets the flag.
FlagsAreSetAndKept ==
    \A color \in Colors :
        /\ \A flag \in {"king_moved", "left_rook_moved", "right_rook_moved"} :
               chess_board.castling_rights[color][flag]
                   => chess_board'.castling_rights[color][flag]
        /\ \E moved \in {chess_board'.move_log[Len(chess_board'.move_log)]} :
               /\ \A side \in {"left_rook_moved", "right_rook_moved"} :
                      (/\ moved[1] = HomeCorner(color, side)
                       /\ chess_board.board[moved[1]] = <<Letter(color), "R">>)
                          => chess_board'.castling_rights[color][side]
               /\ chess_board.board[moved[1]] = <<Letter(color), "K">>
                      => chess_board'.castling_rights[color].king_moved

\* C26: once a rook has moved off its home corner, which sets the flag of its
\* side, castling on that side is offered in no later position of the game,
\* whether or not the rook has returned; and no castling is offered once the
\* king has moved.
CastlingNeverOfferedAgain ==
    /\ []NoCastlingAgainstTheFlags(chess_board)
    /\ [][MoveOfTheGame => FlagsAreSetAndKept]_vars

\* The queen's rook is back on its corner, the king has not moved and the
\* cells between them are empty: White is to move and is not offered c1.
RookBackOnItsCorner ==
    /\ chess_board.current_turn = "white"
    /\ chess_board.castling_rights["white"].left_rook_moved
    /\ ~chess_board.castling_rights["white"].king_moved
    /\ chess_board.board[<<7, 0>>] = <<"w", "R">>
    /\ chess_board.board[<<7, 4>>] = <<"w", "K">>
    /\ \A c \in {1, 2, 3} : chess_board.board[<<7, c>>] = NoTag
    /\ <<7, 2>> \notin King(chess_board, "white", <<7, 4>>)


(***************************************************************************)
(* The engine in the game loop.                                            *)
(***************************************************************************)
EngineToMove ==
    /\ InPlay
    /\ chess_board.current_turn # game.player_color

UserToMove ==
    /\ InPlay
    /\ chess_board.current_turn = game.player_color

\* "New Game (Black)" has been activated and no move has been made.
NewGameBlackStarted ==
    /\ InPlay
    /\ game.player_color = "black"
    /\ game.selected_menu_option = 1
    /\ chess_board.move_log = <<>>

\* C27: after "New Game (Black)" is activated the engine plays the opening
\* move and the board passes to the user; and whenever the engine is to move
\* in the Playing state, eventually the engine has moved or the loop is back
\* in the Menu state (or main() has returned).
EngineOpensAndNeverStalls ==
    /\ NewGameBlackStarted
           ~> (\/ Len(chess_board.move_log) = 1 /\ UserToMove
               \/ game.pc = "returned")
    /\ EngineToMove ~> (UserToMove \/ InMenu \/ game.pc = "returned")


(***************************************************************************)
(* ChessBoard.is_checkmate and ChessBoard.is_stalemate against their       *)
(* description.                                                            *)
(***************************************************************************)
\* C28: is_stalemate() is true exactly when the side to move is not in check
\* and no candidate destination of its pieces passes is_valid_move, and
\* is_checkmate() is true exactly when it is in check and none passes: a side
\* with candidate destinations of which none is legal, and not in check, is
\* reported as stalemated.
MateAndStalemateGoByLegality ==
    /\ ChessBoard_is_stalemate(chess_board) = is_stalemate_by_legality(chess_board)
    /\ ChessBoard_is_checkmate(chess_board)
           = (/\ ChessBoard_is_in_check(chess_board, chess_board.current_turn)
              /\ \A m \in Candidates(chess_board, chess_board.current_turn) :
                     ~is_valid_move(chess_board, m[1], m[2]))


(***************************************************************************)
(* code/main.py and core_components/move_operations.py: the entry point    *)
(* over the external rules library.  The library's board is a Board of the *)
(* first rules engine and its legal moves are those of that engine; the    *)
(* board wrapper and the user-interface adapter, which are not among the   *)
(* sources, are as the specification describes them.                       *)
(***************************************************************************)
\* The message of main.py line 32, here in English.
INVALID_MOVE_MESSAGE == "Invalid move! Choose again."

\* PIECE_SYMBOLS[1:] of the library: the letter of the piece types 1..6.
PIECE_SYMBOLS == <<"p", "n", "b", "r", "q", "k">>

\* Python's None where string_to_move returns no move.
NoLibraryMove == [from_sq |-> None, to_sq |-> None, promotion |-> None]

\* Move.null(), the move of the text 0000.
NullMove == [from_sq |-> 0, to_sq |-> 0, promotion |-> None]

NullText == <<"0", "0", "0", "0">>

\* chess.Move.from_uci raises a ValueError (texts with "@", the drops of
\* other variants of chess, are not among the texts of the model).
FromUciRaises(move_str) ==
    /\ move_str # NullText
    /\ \/ Len(move_str) \notin {4, 5}
       \/ ~LegalName(SubSeq(move_str, 1, 2))
       \/ ~LegalName(SubSeq(move_str, 3, 4))
       \/ Len(move_str) = 5 /\ ~InList(PIECE_SYMBOLS, move_str[5])
       \/ SubSeq(move_str, 1, 2) = SubSeq(move_str, 3, 4)

\* chess.Move.from_uci where it does not raise.
from_uci(move_str) ==
    IF move_str = NullText THEN NullMove
    ELSE [from_sq |-> square_to_index(SubSeq(move_str, 1, 2)),
          to_sq |-> square_to_index(SubSeq(move_str, 3, 4)),
          promotion |-> IF Len(move_str) = 5
                        THEN ListIndex(PIECE_SYMBOLS, move_str[5]) + 1
                        ELSE None]

\* string_to_move: the ValueError is caught and None returned.
string_to_move(b, move_str) ==
    IF FromUciRaises(move_str) THEN NoLibraryMove ELSE from_uci(move_str)

\* generate_legal_moves: list(board.legal_moves)
generate_legal_moves(b) == get_legal_moves(b)

\* "move in generate_legal_moves(board.board)", legal being the list.
InLegalMoves(legal, move) ==
    \E k \in 1..Len(legal) : MoveEq(legal[k], move)

\* The board wrapper's make_move: the library's push of the move, legal being
\* the list of the legal moves of the board.
push(b, legal, move) ==
    make_move(b, Move(move.from_sq, move.to_sq, move.promotion,
                      IF InLegalMoves(legal, move)
                      THEN legal[CHOOSE k \in 1..Len(legal) : MoveEq(legal[k], move)].flags
                      ELSE NORMAL_MOVE))

\* The board wrapper's is_game_over.
wrapper_is_game_over(b) == get_game_state(b) # ONGOING

\* The texts handle_mouse_click returns, beside None: the moves of the
\* shortest mate, one more first move, two moves that are never legal, and
\* texts that are not moves.
SessionTexts ==
    {<<"f", "2", "f", "3">>, <<"e", "7", "e", "5">>, <<"g", "2", "g", "4">>,
     <<"d", "8", "h", "4">>, <<"e", "2", "e", "4">>,
     <<"e", "2", "e", "5">>, <<"e", "7", "e", "8", "q">>,
     NullText, <<"e", "2">>, <<"i", "9", "e", "4">>, <<"E", "2", "E", "4">>,
     <<"e", "2", "e", "4", "x">>, <<"e", "2", "e", "4", "q", "q">>}

NoClick == [text |-> <<>>, move |-> NoLibraryMove, applied |-> FALSE]

\* main(): before the first statement of the try block.
SessionLocals ==
    [pc |-> "board",
     board |-> None,
     over |-> FALSE,
     ui |-> "unbound",
     error_message |-> "unbound",
     running |-> FALSE,
     exception |-> "None",
     shown |-> FALSE,
     cleaned |-> FALSE,
     outcome |-> "running",
     last |-> NoClick]

InitSession ==
    /\ fen = "none"
    /\ board = <<>>
    /\ turn = None
    /\ castling_rights = None
    /\ en_passant_target = None
    /\ halfmove_clock = None
    /\ fullmove_number = None
    /\ history = <<>>
    /\ position_history = <<>>
    /\ legal_moves = <<>>
    /\ game_state = None
    /\ new_board = None
    /\ gui = None
    /\ after_calls = <<>>
    /\ threads = <<>>
    /\ shown = <<>>
    /\ best_move = NoCall
    /\ chess_board = None
    /\ game = None
    /\ session = SessionLocals
    /\ trainer = None
    /\ called = NoCall

SessionFrame ==
    UNCHANGED <<board_vars, new_board, gui, after_calls, threads, shown, best_move,
                chess_board, game, trainer, called>>

\* An exception leaves the try block for the except clause.
Raised(s, name) == [s EXCEPT !.pc = "except", !.exception = name]

\* board = ChessBoard(), which may raise.
SessionConstructBoard ==
    /\ session.pc = "board"
    /\ \E raises \in BOOLEAN :
          session' = IF raises THEN Raised(session, "Exception")
                     ELSE [session EXCEPT !.pc = "ui", !.board = NewBoard(FENS["start"])]
    /\ SessionFrame

\* ui = PygameChessUI(), which may raise; error_message = ""; running = True.
SessionConstructUi ==
    /\ session.pc = "ui"
    /\ \E raises \in BOOLEAN :
          session' = IF raises THEN Raised(session, "Exception")
                     ELSE [session EXCEPT !.pc = "loop", !.ui = "bound",
                                          !.error_message = "", !.running = TRUE]
    /\ SessionFrame

\* The loop is entered: "while running and not board.is_game_over()".
InLoop ==
    /\ session.pc = "loop"
    /\ session.running
    /\ ~session.over

\* A variant of the body of the MOUSEBUTTONDOWN branch that applies every
\* move that string_to_move returns.
handle_click_without_test(s, legal, move_str) ==
    The({IF move = NoLibraryMove
         THEN [s EXCEPT !.error_message = INVALID_MOVE_MESSAGE,
                        !.last = [text |-> move_str, move |-> move, applied |-> FALSE]]
         ELSE The({[s EXCEPT !.board = made,
                             !.over = wrapper_is_game_over(made),
                             !.error_message = "",
                             !.last = [text |-> move_str, move |-> move, applied |-> TRUE]] :
                   made \in {push(s.board, legal, move)}}) :
         move \in {string_to_move(s.board, move_str)}})

\* The body of the MOUSEBUTTONDOWN branch for the text that handle_mouse_click
\* returned, legal being what generate_legal_moves(board.board) returns.
handle_click(s, legal, move_str) ==
    The({IF InLegalMoves(legal, move)
         THEN The({[s EXCEPT !.board = made,
                             !.over = wrapper_is_game_over(made),
                             !.error_message = "",
                             !.last = [text |-> move_str, move |-> move, applied |-> TRUE]] :
                   made \in {push(s.board, legal, move)}})
         ELSE [s EXCEPT !.error_message = INVALID_MOVE_MESSAGE,
                        !.last = [text |-> move_str, move |-> move, applied |-> FALSE]] :
         move \in {string_to_move(s.board, move_str)}})

\* A pass of the loop with the event QUIT.
SessionQuit ==
    /\ InLoop
    /\ \E raises \in BOOLEAN :
          session' = IF raises THEN Raised(session, "Exception")
                     ELSE [session EXCEPT !.running = FALSE, !.last = NoClick]
    /\ SessionFrame

\* A pass of the loop with a click for which handle_mouse_click returns None,
\* or with no event: the board is drawn.
SessionTick ==
    /\ InLoop
    /\ \E raises \in BOOLEAN :
          session' = IF raises THEN Raised(session, "Exception")
                     ELSE [session EXCEPT !.last = NoClick]
    /\ SessionFrame

\* A pass of the loop with a click for which handle_mouse_click returns a
\* text; an exception is raised by handle_mouse_click, by make_move or by
\* draw_board, or by none of them.
SessionMouseButtonDown ==
    /\ InLoop
    /\ \E legal \in {generate_legal_moves(session.board)}, move_str \in SessionTexts :
          \E raises \in {"None", "handle_mouse_click", "make_move", "draw_board"} :
             \E handled \in {handle_click(session, legal, move_str)} :
                session' =
                    CASE raises = "None" -> handled
                      [] raises = "handle_mouse_click" -> Raised(session, "Exception")
                      [] raises = "make_move" ->
                             IF handled.last.applied THEN Raised(session, "Exception")
                             ELSE handled
                      [] raises = "draw_board" -> Raised(handled, "Exception")
    /\ SessionFrame

\* The loop is left: the result is shown when the game is over.
SessionAfterLoop ==
    /\ session.pc = "loop"
    /\ ~session.running \/ session.over
    /\ \E raises \in BOOLEAN :
          session' = IF raises THEN Raised(session, "Exception")
                     ELSE [session EXCEPT !.pc = "finally", !.shown = session.over]
    /\ SessionFrame

\* except Exception as e: print(...)
SessionExcept ==
    /\ session.pc = "except"
    /\ session' = [session EXCEPT !.pc = "finally", !.exception = "None"]
    /\ SessionFrame

\* finally: ui.cleanup(); pygame.quit().  The name ui is unbound when the
\* exception came before its assignment.
SessionFinally ==
    /\ session.pc = "finally"
    /\ session' = IF session.ui = "unbound"
                  THEN [session EXCEPT !.pc = "done", !.exception = "UnboundLocalError",
                                       !.outcome = "raised"]
                  ELSE [session EXCEPT !.pc = "done", !.cleaned = TRUE,
                                       !.outcome = "returned"]
    /\ SessionFrame

NextSession ==
    \/ SessionConstructBoard
    \/ SessionConstructUi
    \/ SessionQuit
    \/ SessionTick
    \/ SessionMouseButtonDown
    \/ SessionAfterLoop
    \/ SessionExcept
    \/ SessionFinally

SpecSession == InitSession /\ [][NextSession]_vars


(***************************************************************************)
(* The clicks of the entry point.                                          *)
(***************************************************************************)
\* The text is a move in UCI form: two squares and at most a piece letter,
\* or the null move 0000.
WellFormedUci(move_str) ==
    \/ move_str = NullText
    \/ /\ Len(move_str) \in {4, 5}
       /\ LegalName(SubSeq(move_str, 1, 2))
       /\ LegalName(SubSeq(move_str, 3, 4))
       /\ Len(move_str) = 5 => InList(PIECE_SYMBOLS, move_str[5])

\* What the last click has left: a text that is not well-formed gave no move,
\* applied nothing and set the message, and an applied move cleared it.
ClickLeftItsMessage ==
    session.last # NoClick =>
        /\ ~WellFormedUci(session.last.text) =>
               /\ session.last.move = NoLibraryMove
               /\ ~session.last.applied
               /\ session.error_message = INVALID_MOVE_MESSAGE
        /\ session.last.applied => session.error_message = ""
        /\ ~session.last.applied => session.error_message = INVALID_MOVE_MESSAGE

\* The board changes in the loop only by the move of the click, which is in
\* the list of the legal moves of the board before the step.
BoardChangesByLegalMove ==
    (session.pc = "loop" /\ session'.board # session.board) =>
        /\ session'.last.applied
        /\ InLegalMoves(generate_legal_moves(session.board), session'.last.move)
        /\ session'.board = push(session.board, generate_legal_moves(session.board),
                                 session'.last.move)

\* C29: whatever the clicks, a move is applied to the board only if the parsed
\* move is in the current list of legal moves; a text that is not well-formed
\* UCI gives no move without an exception, leaves the board as it is and sets
\* the error message; and an applied move clears the message.
ClicksApplyLegalMovesOnly ==
    /\ []ClickLeftItsMessage
    /\ [][BoardChangesByLegalMove]_vars

\* After 1.f3, a click gives the text E2E4, which is not well-formed.
MalformedTextAfterAMove ==
    /\ session.pc = "loop"
    /\ Len(session.board.history) = 1
    /\ session.last.text = <<"E", "2", "E", "4">>
    /\ session.last.move = NoLibraryMove
    /\ session.error_message = INVALID_MOVE_MESSAGE

(***************************************************************************)
(* The ways out of main().                                                 *)
(***************************************************************************)
\* C30: on every way out of main(), the window closed, the game over or an
\* exception raised anywhere in the try block, the construction of the board
\* and of the adapter included, the adapter's cleanup has run and main()
\* returns without an exception.
MainAlwaysCleansUp ==
    session.pc = "done" => (session.cleaned /\ session.outcome = "returned")

(***************************************************************************)
(* train_pytorch_model.py: the training loop of train_model (SpecTrainer)  *)
(*                                                                         *)
(* Only what decides the checkpoint is modelled: the mean validation loss  *)
(* of each epoch and the test that saves the weights. A loss is a Python   *)
(* float: a finite value 0..MaxLoss, inf or nan. trainer holds the locals  *)
(* of train_model and, for the file at MODEL_SAVE_PATH, the epoch that     *)
(* last wrote it and the loss of the weights it holds.                     *)
(***************************************************************************)
\* The epochs run: range(NUM_EPOCHS), NUM_EPOCHS = 25, is cut to MaxEpochs.
MaxEpochs == 4

\* The largest finite loss tried; float('inf') is inf, which is above it.
MaxLoss == 2

\* A loss that is not a number (the mean of losses of a diverged network).
nan == -2

Losses == (0..MaxLoss) \cup {inf, nan}

\* a < b on floats: False when either side is nan.
FloatLess(a, b) == a # nan /\ b # nan /\ a < b

\* a <= b on floats: False when either side is nan.
FloatLessEq(a, b) == a # nan /\ b # nan /\ a <= b

\* A faulty variant of improved: a loss equal to the best one counts.
improved_or_equal(avg_val_loss, best_val_loss) == FloatLessEq(avg_val_loss, best_val_loss)

\* if avg_val_loss < best_val_loss
improved(avg_val_loss, best_val_loss) == FloatLess(avg_val_loss, best_val_loss)

\* The file at MODEL_SAVE_PATH was not written by this run.
NoCheckpoint == [epoch |-> 0, loss |-> None]

InitTrainer ==
    /\ fen = "none"
    /\ board = <<>>
    /\ turn = None
    /\ castling_rights = None
    /\ en_passant_target = None
    /\ halfmove_clock = None
    /\ fullmove_number = None
    /\ history = <<>>
    /\ position_history = <<>>
    /\ legal_moves = <<>>
    /\ game_state = None
    /\ new_board = None
    /\ gui = None
    /\ after_calls = <<>>
    /\ threads = <<>>
    /\ shown = <<>>
    /\ best_move = NoCall
    /\ chess_board = None
    /\ game = None
    /\ session = None
    /\ called = NoCall
    /\ trainer = [pc |-> "start", epoch |-> 0, val_losses |-> <<>>, best_val_loss |-> inf,
                  saved |-> <<>>, checkpoint |-> NoCheckpoint, plotted |-> FALSE]

TrainerFrame ==
    UNCHANGED <<board_vars, new_board, gui, after_calls, threads, shown, best_move,
                chess_board, game, session, called>>

\* train_model up to the loop: without the dataset directory it prints an
\* error and returns.
TrainerLoadDataset ==
    /\ trainer.pc = "start"
    /\ \E exists \in BOOLEAN :
           trainer' = [trainer EXCEPT !.pc = IF exists THEN "training" ELSE "returned"]
    /\ TrainerFrame

\* One pass of the loop over the epochs: the validation pass gives
\* avg_val_loss; the weights are saved when it improved.
TrainerEpoch ==
    /\ trainer.pc = "training"
    /\ trainer.epoch < MaxEpochs
    /\ \E avg_val_loss \in Losses :
           trainer' =
               IF improved(avg_val_loss, trainer.best_val_loss)
               THEN [trainer EXCEPT !.epoch = @ + 1,
                                    !.val_losses = Append(@, avg_val_loss),
                                    !.saved = Append(@, TRUE),
                                    !.checkpoint = [epoch |-> trainer.epoch + 1,
                                                    loss |-> avg_val_loss],
                                    !.best_val_loss = avg_val_loss]
               ELSE [trainer EXCEPT !.epoch = @ + 1,
                                    !.val_losses = Append(@, avg_val_loss),
                                    !.saved = Append(@, FALSE)]
    /\ TrainerFrame

\* After the last epoch: the loss curves are plotted and saved.
TrainerPlot ==
    /\ trainer.pc = "training"
    /\ trainer.epoch = MaxEpochs
    /\ trainer' = [trainer EXCEPT !.pc = "returned", !.plotted = TRUE]
    /\ TrainerFrame

NextTrainer == TrainerLoadDataset \/ TrainerEpoch \/ TrainerPlot

SpecTrainer == InitTrainer /\ [][NextTrainer]_vars

\* The least loss of the epochs before epoch k, inf when there is none; a
\* nan is not less than anything and so is never the least.
BestBefore(val_losses, k) ==
    IF \E j \in 1..(k - 1) : FloatLess(val_losses[j], inf)
    THEN CHOOSE least \in {val_losses[j] : j \in 1..(k - 1)} :
             /\ least # nan
             /\ \A j \in 1..(k - 1) : val_losses[j] # nan => least <= val_losses[j]
    ELSE inf

\* The checkpoint holds the weights of the earliest epoch whose loss no
\* epoch's loss is below.
CheckpointOfTheBestEpoch ==
    IF \A k \in 1..Len(trainer.val_losses) : ~FloatLess(trainer.val_losses[k], inf)
    THEN trainer.checkpoint = NoCheckpoint
    ELSE /\ trainer.checkpoint.epoch \in 1..Len(trainer.val_losses)
         /\ trainer.checkpoint.loss = trainer.val_losses[trainer.checkpoint.epoch]
         /\ \A k \in 1..Len(trainer.val_losses) :
                /\ trainer.val_losses[k] # nan =>
                       FloatLessEq(trainer.checkpoint.loss, trainer.val_losses[k])
                /\ trainer.val_losses[k] = trainer.checkpoint.loss =>
                       trainer.checkpoint.epoch <= k

\* C31 (as amended): torch.save is called in an epoch exactly when its
\* validation loss is strictly below the least loss of the earlier epochs
\* (below inf in the first epoch), a nan being below nothing; so the
\* checkpoint written holds the earliest epoch with the least loss that is
\* a number, it is not above any epoch's loss that is a number, and no
\* checkpoint is written when no epoch's loss is below inf.
CheckpointOnStrictImprovement ==
    /\ Len(trainer.saved) = Len(trainer.val_losses)
    /\ \A k \in 1..Len(trainer.val_losses) :
           trainer.saved[k] <=>
               FloatLess(trainer.val_losses[k], BestBefore(trainer.val_losses, k))
    /\ CheckpointOfTheBestEpoch

\* C31 (as stated): after the last epoch the loss of the checkpoint written
\* is less than or equal to the validation loss of every epoch.
CheckpointLossBelowEveryLoss ==
    (trainer.plotted /\ trainer.checkpoint # NoCheckpoint) =>
        \A k \in 1..Len(trainer.val_losses) :
            FloatLessEq(trainer.checkpoint.loss, trainer.val_losses[k])

\* All epochs ran; the least loss came twice, after a greater one, and the
\* checkpoint is of its first epoch, which is not the first epoch.
TieAfterImprovement ==
    /\ trainer.plotted
    /\ trainer.checkpoint.epoch > 1
    /\ \E k \in 1..Len(trainer.val_losses) :
           k > trainer.checkpoint.epoch /\ trainer.val_losses[k] = trainer.checkpoint.loss

(***************************************************************************)
(* chess_gui.py: on_square_click on any square (SpecClicks)                *)
(*                                                                         *)
(* The user clicks on the squares ClickTargets or outside the board while  *)
(* the game is on one of CLICK_SCRIPTS, answers the promotion dialog with  *)
(* any piece or closes it, and starts games against the engine. No thread  *)
(* ends here: a calculation that was started stays in flight. called has   *)
(* last click: the square, the answer of the dialog, and the world before  *)
(* and after the handler.                                                  *)
(***************************************************************************)
CLICK_SCRIPTS == {FoolsMate, PromotionLine}

ClickOnScript(played) == \E line \in CLICK_SCRIPTS : IsPrefix(played, line)

\* ask_promotion_choice returns the piece of the radio button chosen, or
\* None when the window is closed.
PromoDialogChoices == {None, QUEEN, ROOK, BISHOP, KNIGHT}

\* on_square_click returns before it looks at the square.
ClickReturnsAtOnce(w) ==
    \/ w.game_state # ONGOING
    \/ w.gui.ai_thinking
    \/ w.gui.game_mode = MODE_PVC /\ w.b.turn # w.gui.player_color

\* What the user may answer to a click: None where no dialog is shown.
DialogAnswers(w, clicked_index) ==
    IF /\ ~ClickReturnsAtOnce(w)
       /\ clicked_index # None
       /\ w.gui.selected_square # None
       /\ clicked_index # w.gui.selected_square
       /\ promotion_moves_to(w, clicked_index) # <<>>
    THEN PromoDialogChoices
    ELSE {None}

\* ChessGUI.__init__ where "ai_random" was imported.
InitClicks == InitGui /\ gui.ai_module # NO_AI

\* The squares of the moves of CLICK_SCRIPTS, the corner a1 and the square
\* e4, which stays empty.
ClickTargets ==
    {line[k].from_sq : k \in 1..9, line \in {PromotionLine}}
        \cup {line[k].to_sq : k \in 1..9, line \in {PromotionLine}}
        \cup ClickSquares
        \cup {square_to_index(<<"a", "1">>), square_to_index(<<"e", "4">>)}

\* The user clicks on the canvas.
OnAnyClick ==
    /\ ClickOnScript(Played)
    /\ \E before \in {World} :
       \E clicked_index \in ClickTargets \cup {None} :
       \E promo_choice \in DialogAnswers(before, clicked_index) :
       \E w \in {on_square_click(before, clicked_index, promo_choice)} :
           /\ board' = w.b.board
           /\ turn' = w.b.turn
           /\ castling_rights' = w.b.castling_rights
           /\ en_passant_target' = w.b.en_passant_target
           /\ halfmove_clock' = w.b.halfmove_clock
           /\ fullmove_number' = w.b.fullmove_number
           /\ history' = w.b.history
           /\ position_history' = w.b.position_history
           /\ legal_moves' = w.legal_moves
           /\ game_state' = w.game_state
           /\ gui' = w.gui
           /\ after_calls' = w.after_calls
           /\ threads' = w.threads
           /\ shown' = w.shown
           /\ called' = [call |-> "on_square_click", clicked_index |-> clicked_index,
                         promo_choice |-> promo_choice, before |-> before, after |-> w]
    /\ UNCHANGED <<fen, new_board, best_move, chess_board, game, session, trainer>>

\* The user picks "New Game" against the engine in the menu.
StartGameAgainstEngine ==
    /\ gui.game < MaxGames
    /\ \E human_color \in {WHITE, BLACK} :
       \E w \in {start_new_game(World, MODE_PVC, human_color, TRUE)} : Becomes(w)

NextClicks == OnAnyClick \/ StartGameAgainstEngine

SpecClicks == InitClicks /\ [][NextClicks]_vars

\* The handler left the Board as it was.
BoardKept(before, after) == after.b = before.b

\* The handler left nothing selected.
NothingSelected(after) ==
    after.gui.selected_square = None /\ after.gui.possible_moves = <<>>

\* The piece on sq is selected with the moves it has among legal, or
\* nothing is when it has none.
SelectedWith(after, sq, legal) ==
    \E from_here \in {SelectSeq(legal, LAMBDA m : m.from_sq = sq)} :
        /\ after.gui.possible_moves = from_here
        /\ after.gui.selected_square = IF from_here = <<>> THEN None ELSE sq

\* The handler made the move and nothing more on the Board.
Applied(before, after, move) ==
    /\ after.b = make_move(before.b, move)
    /\ Len(after.b.history) = Len(before.b.history) + 1
    /\ NothingSelected(after)

\* The click on the square sq answered with choice went by the five cases.
FiveCases(before, after, sq, choice) ==
    \E legal \in {get_legal_moves(before.b)} :
    \E piece \in {before.b.board[sq]} :
    \E stored_to \in {SelectSeq(before.gui.possible_moves, LAMBDA m : m.to_sq = sq)} :
    \E own \in {piece # NoPiece /\ piece.color = before.b.turn} :
        IF before.gui.selected_square = None
        THEN /\ BoardKept(before, after)
             /\ IF own THEN SelectedWith(after, sq, legal) ELSE after = before
        ELSE IF sq = before.gui.selected_square
        THEN BoardKept(before, after) /\ NothingSelected(after)
        ELSE IF stored_to # <<>>
        THEN IF \E k \in 1..Len(stored_to) : stored_to[k].promotion # None
             THEN IF choice = None
                  THEN BoardKept(before, after) /\ NothingSelected(after)
                  ELSE \E k \in 1..Len(stored_to) :
                           /\ stored_to[k].promotion = choice
                           /\ \A j \in 1..Len(stored_to) :
                                  stored_to[j].promotion = choice => j = k
                           /\ Applied(before, after, stored_to[k])
             ELSE Len(stored_to) = 1 /\ Applied(before, after, stored_to[1])
        ELSE IF own
        THEN BoardKept(before, after) /\ SelectedWith(after, sq, legal)
        ELSE BoardKept(before, after) /\ NothingSelected(after)

PieceCount(squares) == Cardinality({sq \in 0..63 : squares[sq] # NoPiece})

\* The step put a move on the history stack: make_move was called.
MoveApplied == Len(history') = Len(history) + 1

\* The counters after an applied move, read off the boards before and after
\* it: the clock is 0 if the mover was a pawn or a piece left the board, the
\* old clock plus 1 otherwise; the full-move number is one more after
\* Black's move and the same after White's.
CountersAfterMove ==
    LET move == history'[Len(history')].move
        a_pawn_moved == board[move.from_sq].type = PAWN
        a_piece_left == PieceCount(board') < PieceCount(board)
    IN  /\ halfmove_clock' = (IF a_pawn_moved \/ a_piece_left THEN 0 ELSE halfmove_clock + 1)
        /\ fullmove_number' = (IF turn = BLACK THEN fullmove_number + 1 ELSE fullmove_number)

\* C33: every applied move sets the half-move clock to 0 if it is a pawn
\* move or a capture (en passant included) and to the old clock plus 1
\* otherwise, and raises the full-move number by exactly 1 after Black's
\* move and leaves it after White's; along make_move and unmake_move both
\* counters stay non-negative.
ClockAndMoveNumberCounted ==
    /\ [](halfmove_clock >= 0 /\ fullmove_number >= 0)
    /\ [][MoveApplied => CountersAfterMove]_vars

\* After 1. e4 e5 2. Nf3 Nf6 the knight took the pawn on e5: the clock went
\* from 2 to 0 and the move number stayed 3.
PieceCaptureResetsClock ==
    /\ fen = "start"
    /\ Len(history) = 5
    /\ history[5].captured_piece = Piece(PAWN, BLACK)
    /\ board[history[5].move.to_sq] = Piece(KNIGHT, WHITE)
    /\ history[5].old_halfmove = 2
    /\ halfmove_clock = 0
    /\ fullmove_number = 3

(***************************************************************************)
(* The castling rights along make_move                                     *)
(***************************************************************************)
\* The four rights: the bit, its colour and the rook's home corner.
RIGHTS ==
    {[bit |-> WHITE_KING_SIDE, color |-> WHITE, corner |-> CORNERS.h1],
     [bit |-> WHITE_QUEEN_SIDE, color |-> WHITE, corner |-> CORNERS.a1],
     [bit |-> BLACK_KING_SIDE, color |-> BLACK, corner |-> CORNERS.h8],
     [bit |-> BLACK_QUEEN_SIDE, color |-> BLACK, corner |-> CORNERS.a8]}

\* The rights after an applied move, read off the boards before and after
\* it, for each of the four rights.
RightsAfterMove ==
    LET move == history'[Len(history')].move
        mover == board[move.from_sq]
        king_moved(r) == mover.type = KING /\ mover.color = r.color
        rook_left(r) == mover.type = ROOK /\ move.from_sq = r.corner
        taken_on(r) == board[move.to_sq] # NoPiece /\ move.to_sq = r.corner
    IN  \A r \in RIGHTS :
            /\ HasRight(castling_rights', r.bit) => HasRight(castling_rights, r.bit)
            /\ king_moved(r) \/ rook_left(r) \/ taken_on(r)
                   => ~HasRight(castling_rights', r.bit)
            /\ fen = "start" /\ ~king_moved(r) /\ ~rook_left(r) /\ ~taken_on(r)
                   => (HasRight(castling_rights', r.bit) <=> HasRight(castling_rights, r.bit))

\* C34: make_move only clears castling rights and never sets one: a king's
\* move (castling included) clears both rights of its colour, a rook's move
\* from a1, h1, a8 or h8 clears the right of that corner, a capture landing
\* on one of these corners clears the right of that corner, and in a game
\* from the starting position no other move changes the rights.
CastlingRightsOnlyCleared == [][MoveApplied => RightsAfterMove]_vars

\* The bishop has taken the rook on h8 while Black could still castle on
\* both sides: only Black's queen-side right is left to Black.
RookTakenOnItsCorner ==
    /\ fen = "start"
    /\ history # <<>>
    /\ history[Len(history)].move.to_sq = CORNERS.h8
    /\ history[Len(history)].captured_piece = Piece(ROOK, BLACK)
    /\ HasRight(history[Len(history)].old_castling, BLACK_KING_SIDE)
    /\ ~HasRight(castling_rights, BLACK_KING_SIDE)
    /\ HasRight(castling_rights, BLACK_QUEEN_SIDE)

(***************************************************************************)
(* The repetition table as a tally of the line of play                     *)
(***************************************************************************)
\* The boards of the line of play: the constructed board and the board
\* after each of the first n moves on the history stack.
RECURSIVE LineOfPlay(_)
LineOfPlay(n) ==
    IF n = 0 THEN <<NewBoard(FENS[fen])>>
    ELSE The({Append(line, make_move(line[n], history[n].move)) : line \in {LineOfPlay(n - 1)}})

\* The fingerprints of the boards.
Fingerprints(line) == [k \in 1..Len(line) |-> PositionHash(line[k])]

\* How many of the fingerprints are h.
Occurrences(prints, h) == Cardinality({k \in 1..Len(prints) : prints[k] = h})

RECURSIVE SumOfCounts(_, _)
SumOfCounts(table, keys) ==
    IF keys = {} THEN 0
    ELSE LET k == CHOOSE x \in keys : TRUE IN table[k] + SumOfCounts(table, keys \ {k})

\* C35: after any sequence of make_move and unmake_move calls, those made
\* inside get_legal_moves included, the repetition table tallies the line of
\* play: each fingerprint's count is the number of positions among the
\* constructed one and those after each move on the history stack that have
\* it, no entry is below 1, and the counts sum to the history length plus 1.
RepetitionTableTalliesTheLine ==
    \E prints \in {Fingerprints(LineOfPlay(Len(history)))} :
        /\ DOMAIN position_history = {prints[k] : k \in 1..Len(prints)}
        /\ \A h \in DOMAIN position_history :
               /\ position_history[h] = Occurrences(prints, h)
               /\ position_history[h] >= 1
        /\ SumOfCounts(position_history, DOMAIN position_history) = Len(history) + 1

\* The knights have gone out and back: the table holds four positions, the
\* current one twice, after the caller's look at the legal moves.
RepeatedPositionCountedTwice ==
    /\ Len(history) = 4
    /\ legal_moves # <<>>
    /\ position_history[PositionHash(Self)] = 2
    /\ Cardinality(DOMAIN position_history) = 4

(***************************************************************************)
(* The castling rights and the pieces they speak of                        *)
(***************************************************************************)
\* The king's home square of the colour.
KingHome(color) == square_to_index(<<"e", IF color = WHITE THEN "1" ELSE "8">>)

\* A set right has its king on e1 or e8 and its rook on the corner.
RightsHaveTheirPieces ==
    \A r \in RIGHTS :
        HasRight(castling_rights, r.bit) =>
            /\ board[KingHome(r.color)] = Piece(KING, r.color)
            /\ board[r.corner] = Piece(ROOK, r.color)

\* Each castling move on offer is the king's from its home square, finds the
\* rook of the side to move on the corner, and make_move puts that rook on
\* the square the king passes and leaves the corner empty.
CastlingRelocatesTheRook ==
    \A k \in 1..Len(legal_moves) :
        legal_moves[k].flags = CASTLING =>
            \E m \in {legal_moves[k]} : \E rk \in {CastlingRook(m.to_sq)} :
            \E after \in {make_move(Self, m)} :
                /\ rk # <<>>
                /\ m.from_sq = KingHome(turn)
                /\ board[m.from_sq] = Piece(KING, turn)
                /\ board[rk[1]] = Piece(ROOK, turn)
                /\ after.board[rk[2]] = Piece(ROOK, turn)
                /\ after.board[rk[1]] = NoPiece
                /\ after.board[m.to_sq] = Piece(KING, turn)
                /\ PieceCount(after.board) = PieceCount(board)

\* C36: in every position reached from the starting position by legal
\* moves (and by taking moves back) a set castling right has its king on e1
\* or e8 and a rook of its colour on its corner h1, a1, h8 or a8, so that a
\* generated castling move always relocates a rook that is there.
SetRightsHaveKingAndRookAtHome ==
    fen = "start" => RightsHaveTheirPieces /\ CastlingRelocatesTheRook

\* White has castled and has no right left; Black, with both rights, is
\* offered the castling move to g8.
BlackOfferedCastlingAfterWhiteCastled ==
    /\ fen = "start"
    /\ turn = BLACK
    /\ ~HasRight(castling_rights, WHITE_KING_SIDE)
    /\ ~HasRight(castling_rights, WHITE_QUEEN_SIDE)
    /\ HasRight(castling_rights, BLACK_KING_SIDE)
    /\ HasRight(castling_rights, BLACK_QUEEN_SIDE)
    /\ \E k \in 1..Len(legal_moves) :
           /\ legal_moves[k].flags = CASTLING
           /\ legal_moves[k].to_sq = square_to_index(<<"g", "8">>)

(***************************************************************************)
(* The searches and the Board they are given (SpecAi)                      *)
(***************************************************************************)
\* The step is a call of a search: find_best_move of ai_minimax or of
\* ai_alphabeta, or minimax and alphabeta run one after the other.
SearchReturned ==
    /\ best_move = NoCall
    /\ IF best_move'.call = "find_best_move"
       THEN best_move'.strategy \in {"ai_minimax", "ai_alphabeta"}
       ELSE best_move'.call = "search"

\* C37: when a minimax or alpha-beta search returns, after cut-offs too, the
\* Board it was given is as it was at the call: squares, turn, castling
\* rights, en-passant target, clocks, history stack and repetition table.
SearchesLeaveTheBoardAsFound == [][SearchReturned => Self' = Self]_vars

\* In alphabeta(board, 3, -inf, inf, ...) on the live Board, the loop over
\* the replies to the k-th move at the root is left with break.
CutOffBelowRoot(k) ==
    \E call \in {LegalMovesCall(Self)} : \E ordered \in {ordered_moves(call.moves)} :
    \E before \in {AlphaBetaLoop(ordered, 1, k - 1, 3, turn = WHITE,
                       [score |-> IF turn = WHITE THEN 0 - inf ELSE inf, move |-> NoMove,
                        board |-> call.board, alpha |-> 0 - inf, beta |-> inf,
                        broken |-> FALSE])} :
    \E made \in {make_move(before.board, ordered[k])} :
    \E replies \in {LegalMovesCall(made)} :
        /\ get_game_state(made) = ONGOING
        /\ replies.moves # <<>>
        /\ AlphaBetaLoop(ordered_moves(replies.moves), 1, Len(replies.moves), 2, turn # WHITE,
               [score |-> IF turn # WHITE THEN 0 - inf ELSE inf, move |-> NoMove,
                board |-> replies.board, alpha |-> before.alpha, beta |-> before.beta,
                broken |-> FALSE]).broken

\* ai_alphabeta.find_best_move has returned a move on the board with the
\* pawn fork, and its search cut off the replies to one of White's moves.
AlphaBetaReturnedAfterCutOff ==
    /\ fen = "fork_w"
    /\ best_move.call = "find_best_move"
    /\ best_move.strategy = "ai_alphabeta"
    /\ best_move.move # NoMove
    /\ history = <<>>
    /\ \E k \in 1..Len(legal_moves) : CutOffBelowRoot(k)

SameGame == gui'.game = gui.game

\* The step starts a calculation: a thread is added or ai_thinking is set.
CalculationStarted ==
    \/ Len(threads') > Len(threads)
    \/ gui'.ai_thinking /\ ~gui.ai_thinking

TrackedKingsStandOnTheirCells ==
    /\ chess_board.board[chess_board.white_king_pos] = <<"w", "K">>
    /\ chess_board.board[chess_board.black_king_pos] = <<"b", "K">>

====
